---- MODULE Spec2Model ----
(***************************************************************************)
(* Model of the course / section / item backend (routes/courses.py,        *)
(* routes/sections.py, routes/items.py, routes/enrollments.py,             *)
(* routes/evaluation.py, routes/users.py, routes/auth.py) over a document  *)
(* store with the indexes that server.py creates at startup.               *)
(*                                                                         *)
(* Every request handler is one action.  Timestamps (created_at,           *)
(* updated_at) and the audit_logs collection are written by the handlers   *)
(* but never read back by them; they are not part of the state here.       *)
(***************************************************************************)
EXTENDS Integers, FiniteSets, Sequences, TLC

VARIABLES courses, sections, items, enrollments, grades, completion_state,
          nextId, last,
          course_categories, enrollment_methods, counts,
          quizzes, questions, quiz_attempts, assignments, submissions,
          users,      \* the users collection
          requests    \* the requests whose store operations are under way

\* The collections that only routes/evaluation.py reads and writes
evaluation == <<quizzes, questions, quiz_attempts, assignments, submissions>>

vars == <<courses, sections, items, enrollments, grades, completion_state,
          nextId, last, course_categories, enrollment_methods, counts,
          evaluation, users, requests>>

----------------------------------------------------------------------------
(* Bounds of the model *)

MaxId == 2            \* uuid4 hands out the fresh ids 1..MaxId
MaxPos == 2           \* position arguments of requests range over -1..MaxPos
MaxNumSections == 2   \* num_sections of a created course ranges over 0..this
MaxItems == 3         \* items that exist at the start, over all sections
MaxBatch == 3         \* user_ids lists of bulk_enroll have at most this length
MaxAttempts == 2      \* max_attempts of a quiz ranges over 0..this

----------------------------------------------------------------------------
(* HTTP status codes used by the handlers *)

HTTP_200_OK == 200
HTTP_400_BAD_REQUEST == 400
HTTP_403_FORBIDDEN == 403
HTTP_404_NOT_FOUND == 404
HTTP_500_INTERNAL_SERVER_ERROR == 500

----------------------------------------------------------------------------
(* Actors.  The bearer token carries (user_id, role).                       *)

Users == {"admin", "teacherA", "teacherB", "editor", "student"}

RoleOf(u) ==
  CASE u = "admin" -> "admin"
    [] u \in {"teacherA", "teacherB"} -> "teacher"
    [] u = "editor" -> "editor"
    [] OTHER -> "student"

\* utils/auth.py require_roles(allowed): the dependency rejects a caller
\* whose role is not listed before the handler body runs.
require_roles(u, allowed) == RoleOf(u) \in allowed

CourseIds == {"c1", "c2"}
ShortNames == {"s1", "s2", "s3"}
CategoryIds == {"cat1", "nocat"}    \* "nocat" is the id of no category
CourseStatus == {"draft", "published", "suspended", "archived"}
EnrollmentRole == {"teacher", "editor", "student"}
EnrollmentStatus == {"active", "suspended", "ended"}

PosArgs == -1 .. MaxPos
NoId == 0

----------------------------------------------------------------------------
(* Document store helpers *)

CourseOf(cid) == CHOOSE c \in courses : c.id = cid
CourseExists(cid) == \E c \in courses : c.id = cid

SectionsOf(secs, cid) == {s \in secs : s.course_id = cid}
ItemsOf(its, sid) == {i \in its : i.section_id = sid}

\* find_one(..., sort=[("position", -1)]): the largest position of a scope
MaxOf(S) == CHOOSE m \in S : \A x \in S : x <= m

\* Variant: the next position taken from the number of documents, counted
\* from one
NextPositionFromCount(docs) == Cardinality(docs) + 1

\* next_position = (max["position"] + 1) if max else 0
NextPosition(docs) ==
  IF docs = {} THEN 0 ELSE MaxOf({d.position : d \in docs}) + 1

\* Dense sequence: the positions are exactly 0..N-1, each once
Dense(docs) ==
  /\ \A a, b \in docs : a.position = b.position => a = b
  /\ {d.position : d \in docs} = 0 .. (Cardinality(docs) - 1)

\* The unique index on course_sections (course_id, position): a write of
\* document d is refused when another document holds the same key.
SectionKeyTaken(secs, d) ==
  \E t \in secs : t.id # d.id /\ t.course_id = d.course_id
                  /\ t.position = d.position

\* update_many({...}, {"$inc": {"position": by}}) on course_sections.  The
\* store updates the matching documents one at a time, in an order the
\* caller does not control, checking the unique index at each write; the
\* first refused write raises DuplicateKeyError and the earlier writes stay.
RECURSIVE SectionsUpdateManyInc(_, _, _)
SectionsUpdateManyInc(secs, pending, by) ==
  IF pending = {} THEN {[docs |-> secs, ok |-> TRUE]}
  ELSE UNION {
    LET s == CHOOSE x \in secs : x.id = sid
        s2 == [s EXCEPT !.position = @ + by]
    IN IF SectionKeyTaken(secs, s2)
       THEN {[docs |-> secs, ok |-> FALSE]}
       ELSE SectionsUpdateManyInc((secs \ {s}) \cup {s2}, pending \ {sid}, by)
    : sid \in pending }

\* update_many with $inc on course_items (no unique index on items)
ItemsUpdateManyInc(its, match, by) ==
  {IF i \in match THEN [i EXCEPT !.position = @ + by] ELSE i : i \in its}

\* The answer to the last request: the handler, the status, the reason
Response(op, code, detail) == [op |-> op, code |-> code, detail |-> detail]


\* A PATCH payload (model_dump(exclude_unset=True)): the set of fields the
\* caller supplied, out of position and visible, with their values
PatchPayloads ==
  {[fields |-> f, position |-> p, visible |-> v] :
     f \in {{"position"}, {"visible"}, {"position", "visible"}},
     p \in PosArgs, v \in BOOLEAN}

\* update_one({"id": ...}, {"$set": update_data})
ApplyPatch(doc, patch) ==
  [doc EXCEPT
     !.position = IF "position" \in patch.fields THEN patch.position ELSE @,
     !.visible = IF "visible" \in patch.fields THEN patch.visible ELSE @]

----------------------------------------------------------------------------
(* routes/sections.py *)

\* Variant: the enrollment lookup without the "status": "active" filter
check_course_access_any_enrollment(cid, u, edit) ==
  IF ~CourseExists(cid) THEN HTTP_404_NOT_FOUND
  ELSE IF edit /\ CourseOf(cid).status = "archived" THEN HTTP_400_BAD_REQUEST
  ELSE IF /\ RoleOf(u) = "student"
          /\ ~\E e \in enrollments : e.course_id = cid /\ e.user_id = u
          /\ (CourseOf(cid).status # "published" \/ ~CourseOf(cid).visible)
       THEN HTTP_403_FORBIDDEN
  ELSE HTTP_200_OK

\* Status the access check answers with (200 when it returns the course)
check_course_access(cid, u, edit) ==
  IF ~CourseExists(cid) THEN HTTP_404_NOT_FOUND
  ELSE IF edit /\ CourseOf(cid).status = "archived" THEN HTTP_400_BAD_REQUEST
  ELSE IF /\ RoleOf(u) = "student"
          /\ ~\E e \in enrollments : /\ e.course_id = cid
                                      /\ e.user_id = u
                                      /\ e.status = "active"
          /\ (CourseOf(cid).status # "published" \/ ~CourseOf(cid).visible)
       THEN HTTP_403_FORBIDDEN
  ELSE HTTP_200_OK

AccessDetail(code) ==
  CASE code = HTTP_404_NOT_FOUND -> "course_not_found"
    [] code = HTTP_400_BAD_REQUEST -> "archived"
    [] code = HTTP_403_FORBIDDEN -> "no_access"
    [] OTHER -> "ok"

list_sections(u, cid) ==
  LET acc == check_course_access(cid, u, FALSE)
  IN /\ last' = Response("list_sections", acc, AccessDetail(acc))
     /\ UNCHANGED <<courses, sections, items, enrollments, grades,
                    completion_state, course_categories,
                    enrollment_methods, counts, evaluation, nextId,
                    users, requests>>

get_section(u, cid, sid) ==
  LET acc == check_course_access(cid, u, FALSE)
      found == \E s \in sections : s.id = sid /\ s.course_id = cid
  IN /\ last' = IF acc # HTTP_200_OK
                THEN Response("get_section", acc, AccessDetail(acc))
                ELSE IF ~found
                THEN Response("get_section", HTTP_404_NOT_FOUND,
                              "section_not_found")
                ELSE Response("get_section", HTTP_200_OK, "ok")
     /\ UNCHANGED <<courses, sections, items, enrollments, grades,
                    completion_state, course_categories,
                    enrollment_methods, counts, evaluation, nextId,
                    users, requests>>

\* The keys of section_data.model_dump(): every field of CourseSectionCreate,
\* the defaulted ones included
CourseSectionCreateFields == {"title", "summary", "position", "course_id"}

\* f(**mapping, k=v, ...): a keyword that the mapping and the call both give
\* raises "TypeError: got multiple values for keyword argument" before f is
\* entered; the request is answered 500
KeywordGivenTwice(dumped, explicit) == dumped \cap explicit # {}

create_section(u, cid, pos) ==
  LET acc == check_course_access(cid, u, TRUE)
      scope == SectionsOf(sections, cid)
      next_position == NextPosition(scope)
      type_error == KeywordGivenTwice(CourseSectionCreateFields,
                                      {"course_id", "position"})
      section == [id |-> nextId, course_id |-> cid,
                  position |-> IF pos # 0 THEN pos ELSE next_position,
                  visible |-> TRUE, title |-> "payload"]
      code == IF ~require_roles(u, {"admin", "teacher", "editor"})
              THEN HTTP_403_FORBIDDEN
              ELSE IF acc # HTTP_200_OK THEN acc
              ELSE IF type_error \/ SectionKeyTaken(sections, section)
              THEN HTTP_500_INTERNAL_SERVER_ERROR
              ELSE HTTP_200_OK
      detail == IF ~require_roles(u, {"admin", "teacher", "editor"}) THEN "role"
                ELSE IF acc # HTTP_200_OK THEN AccessDetail(acc)
                ELSE IF type_error THEN "type_error"
                ELSE IF code = HTTP_500_INTERNAL_SERVER_ERROR THEN "duplicate_key"
                ELSE "ok"
  IN /\ nextId <= MaxId
     /\ sections' = IF code = HTTP_200_OK THEN sections \cup {section}
                    ELSE sections
     /\ nextId' = IF code = HTTP_200_OK THEN nextId + 1 ELSE nextId
     /\ last' = Response("create_section", code, detail)
     /\ UNCHANGED <<courses, items, enrollments, grades, completion_state,
                    course_categories, enrollment_methods, counts, evaluation,
                    users, requests>>

\* Variant: the set of the moved section alone, without the sibling shift,
\* on a collection that has no unique index
MoveSectionSetOnly(secs, cid, sid, old_position, new_position) ==
  LET s == CHOOSE x \in secs : x.id = sid
  IN {[docs |-> (secs \ {s}) \cup {[s EXCEPT !.position = new_position]},
       ok |-> TRUE]}

\* What move_section does to course_sections once the section is found and
\* new_position differs: the sibling shift, then the set of the moved one.
MoveSectionWrites(secs, cid, sid, old_position, new_position) ==
  LET match == IF new_position > old_position
               THEN {s.id : s \in {x \in SectionsOf(secs, cid) :
                        x.position > old_position /\ x.position <= new_position}}
               ELSE {s.id : s \in {x \in SectionsOf(secs, cid) :
                        x.position >= new_position /\ x.position < old_position}}
      by == IF new_position > old_position THEN -1 ELSE 1
  IN UNION {
       IF ~sh.ok THEN {sh}
       ELSE LET s == CHOOSE x \in sh.docs : x.id = sid
                s2 == [s EXCEPT !.position = new_position]
            IN IF SectionKeyTaken(sh.docs, s2)
               THEN {[docs |-> sh.docs, ok |-> FALSE]}
               ELSE {[docs |-> (sh.docs \ {s}) \cup {s2}, ok |-> TRUE]}
       : sh \in SectionsUpdateManyInc(secs, match, by) }

move_section(u, cid, sid, new_position) ==
  LET acc == check_course_access(cid, u, TRUE)
      found == \E s \in sections : s.id = sid /\ s.course_id = cid
      section == CHOOSE s \in sections : s.id = sid /\ s.course_id = cid
      R(code, detail) == Response("move_section", code, detail)
  IN /\ UNCHANGED <<courses, items, enrollments, grades, completion_state,
                    course_categories, enrollment_methods, counts, evaluation,
                    nextId,
                    users, requests>>
     /\ IF ~require_roles(u, {"admin", "teacher", "editor"})
        THEN last' = R(HTTP_403_FORBIDDEN, "role") /\ UNCHANGED sections
        ELSE IF acc # HTTP_200_OK
        THEN last' = R(acc, AccessDetail(acc)) /\ UNCHANGED sections
        ELSE IF ~found
        THEN last' = R(HTTP_404_NOT_FOUND, "section_not_found")
             /\ UNCHANGED sections
        ELSE IF new_position = section.position
        THEN last' = R(HTTP_200_OK, "no_change") /\ UNCHANGED sections
        ELSE \E w \in MoveSectionWrites(sections, cid, sid, section.position,
                                        new_position) :
               /\ sections' = w.docs
               /\ last' = IF w.ok THEN R(HTTP_200_OK, "moved")
                          ELSE R(HTTP_500_INTERNAL_SERVER_ERROR, "duplicate_key")

update_section(u, cid, sid, patch) ==
  LET acc == check_course_access(cid, u, TRUE)
      found == \E s \in sections : s.id = sid /\ s.course_id = cid
      section == CHOOSE s \in sections : s.id = sid
      updated == ApplyPatch(section, patch)
      code == IF ~require_roles(u, {"admin", "teacher", "editor"})
              THEN HTTP_403_FORBIDDEN
              ELSE IF acc # HTTP_200_OK THEN acc
              ELSE IF ~found THEN HTTP_404_NOT_FOUND
              ELSE IF SectionKeyTaken(sections, updated)
              THEN HTTP_500_INTERNAL_SERVER_ERROR
              ELSE HTTP_200_OK
      detail == IF ~require_roles(u, {"admin", "teacher", "editor"}) THEN "role"
                ELSE IF acc # HTTP_200_OK THEN AccessDetail(acc)
                ELSE IF ~found THEN "section_not_found"
                ELSE IF code = HTTP_500_INTERNAL_SERVER_ERROR THEN "duplicate_key"
                ELSE "ok"
  IN /\ sections' = IF code = HTTP_200_OK
                    THEN (sections \ {section}) \cup {updated}
                    ELSE sections
     /\ last' = Response("update_section", code, detail)
     /\ UNCHANGED <<courses, items, enrollments, grades, completion_state,
                    course_categories, enrollment_methods, counts, evaluation,
                    nextId,
                    users, requests>>

\* Variant: a section that has items is never deleted
SectionDeleteRefusedAlways(item_count, force) == item_count > 0

\* if item_count > 0 and not force: the request is refused
SectionDeleteRefused(item_count, force) == item_count > 0 /\ ~force

delete_section(u, cid, sid, force) ==
  LET acc == check_course_access(cid, u, TRUE)
      found == \E s \in sections : s.id = sid /\ s.course_id = cid
      item_count == Cardinality(ItemsOf(items, sid))
      code == IF ~require_roles(u, {"admin", "teacher"}) THEN HTTP_403_FORBIDDEN
              ELSE IF acc # HTTP_200_OK THEN acc
              ELSE IF ~found THEN HTTP_404_NOT_FOUND
              ELSE IF SectionDeleteRefused(item_count, force)
              THEN HTTP_400_BAD_REQUEST
              ELSE HTTP_200_OK
      detail == IF ~require_roles(u, {"admin", "teacher"}) THEN "role"
                ELSE IF acc # HTTP_200_OK THEN AccessDetail(acc)
                ELSE IF ~found THEN "section_not_found"
                ELSE IF code = HTTP_400_BAD_REQUEST THEN "has_items"
                ELSE "ok"
  IN /\ items' = IF code = HTTP_200_OK
                 THEN {i \in items : i.section_id # sid} ELSE items
     /\ sections' = IF code = HTTP_200_OK
                    THEN {s \in sections : s.id # sid} ELSE sections
     /\ last' = Response("delete_section", code, detail)
     /\ UNCHANGED <<courses, enrollments, grades, completion_state,
                    course_categories, enrollment_methods, counts, evaluation, nextId,
                    users, requests>>

----------------------------------------------------------------------------
(* routes/items.py *)

check_section_access(sid, edit) ==
  IF ~\E s \in sections : s.id = sid THEN HTTP_404_NOT_FOUND
  ELSE LET section == CHOOSE s \in sections : s.id = sid
       IN IF ~CourseExists(section.course_id) THEN HTTP_404_NOT_FOUND
          ELSE IF edit /\ CourseOf(section.course_id).status = "archived"
          THEN HTTP_400_BAD_REQUEST
          ELSE HTTP_200_OK

SectionAccessDetail(code) ==
  CASE code = HTTP_404_NOT_FOUND -> "not_found"
    [] code = HTTP_400_BAD_REQUEST -> "archived"
    [] OTHER -> "ok"

\* A response that carries documents: returned is the set of their ids
ItemsResponse(op, code, detail, returned) ==
  [op |-> op, code |-> code, detail |-> detail, items |-> returned]

\* GET /sections/{section_id}/items; the query of a student has
\* "visible": True added
list_section_items(u, sid) ==
  LET acc == check_section_access(sid, FALSE)
      query == {i \in ItemsOf(items, sid) :
                  RoleOf(u) = "student" => i.visible}
  IN /\ last' = IF acc # HTTP_200_OK
                THEN ItemsResponse("list_section_items", acc,
                                   SectionAccessDetail(acc), {})
                ELSE ItemsResponse("list_section_items", HTTP_200_OK, "ok",
                                   {i.id : i \in query})
     /\ UNCHANGED <<courses, sections, items, enrollments, grades,
                    completion_state, course_categories,
                    enrollment_methods, counts, evaluation, nextId,
                    users, requests>>

\* GET /items/{item_id}: find_one by id, 404 when there is none
get_item(u, iid) ==
  LET found == \E i \in items : i.id = iid
  IN /\ last' = IF ~found
                THEN ItemsResponse("get_item", HTTP_404_NOT_FOUND,
                                   "not_found", {})
                ELSE ItemsResponse("get_item", HTTP_200_OK, "ok", {iid})
     /\ UNCHANGED <<courses, sections, items, enrollments, grades,
                    completion_state, course_categories,
                    enrollment_methods, counts, evaluation, nextId,
                    users, requests>>

\* update_item / delete_item: "if course and course['status'] == 'archived'"
ItemCourseArchived(item) ==
  /\ CourseExists(item.course_id)
  /\ CourseOf(item.course_id).status = "archived"

\* The keys of item_data.model_dump(): every field of CourseItemCreate
CourseItemCreateFields ==
  {"title", "item_type", "description", "position", "content", "section_id"}

create_item(u, sid, pos) ==
  LET acc == check_section_access(sid, TRUE)
      section == CHOOSE s \in sections : s.id = sid
      scope == ItemsOf(items, sid)
      next_position == NextPosition(scope)
      type_error == KeywordGivenTwice(CourseItemCreateFields,
                                      {"section_id", "course_id", "position"})
      item == [id |-> nextId, section_id |-> sid,
               course_id |-> section.course_id,
               position |-> IF pos # 0 THEN pos ELSE next_position,
               visible |-> TRUE]
      code == IF ~require_roles(u, {"admin", "teacher", "editor"})
              THEN HTTP_403_FORBIDDEN
              ELSE IF acc # HTTP_200_OK THEN acc
              ELSE IF type_error THEN HTTP_500_INTERNAL_SERVER_ERROR
              ELSE HTTP_200_OK
      detail == IF ~require_roles(u, {"admin", "teacher", "editor"}) THEN "role"
                ELSE IF acc # HTTP_200_OK THEN SectionAccessDetail(acc)
                ELSE IF type_error THEN "type_error"
                ELSE "ok"
  IN /\ nextId <= MaxId
     /\ items' = IF code = HTTP_200_OK THEN items \cup {item} ELSE items
     /\ nextId' = IF code = HTTP_200_OK THEN nextId + 1 ELSE nextId
     /\ last' = Response("create_item", code, detail)
     /\ UNCHANGED <<courses, sections, enrollments, grades, completion_state,
                    course_categories, enrollment_methods, counts, evaluation,
                    users, requests>>

update_item(u, iid, patch) ==
  LET found == \E i \in items : i.id = iid
      item == CHOOSE i \in items : i.id = iid
      updated == ApplyPatch(item, patch)
      code == IF ~require_roles(u, {"admin", "teacher", "editor"})
              THEN HTTP_403_FORBIDDEN
              ELSE IF ~found THEN HTTP_404_NOT_FOUND
              ELSE IF ItemCourseArchived(item) THEN HTTP_400_BAD_REQUEST
              ELSE HTTP_200_OK
      detail == IF ~require_roles(u, {"admin", "teacher", "editor"}) THEN "role"
                ELSE IF ~found THEN "item_not_found"
                ELSE IF code = HTTP_400_BAD_REQUEST THEN "archived"
                ELSE "ok"
  IN /\ items' = IF code = HTTP_200_OK THEN (items \ {item}) \cup {updated}
                 ELSE items
     /\ last' = Response("update_item", code, detail)
     /\ UNCHANGED <<courses, sections, enrollments, grades, completion_state,
                    course_categories, enrollment_methods, counts, evaluation,
                    nextId,
                    users, requests>>

\* Variant: the delete closes the gap, moving the later siblings up by one
DeleteOneAndCloseGap(its, item) ==
  ItemsUpdateManyInc(its \ {item},
    {i \in ItemsOf(its, item.section_id) : i.position > item.position}, -1)

\* delete_one({"id": item_id}) on course_items
DeleteOne(its, item) == its \ {item}

delete_item(u, iid) ==
  LET found == \E i \in items : i.id = iid
      item == CHOOSE i \in items : i.id = iid
      code == IF ~require_roles(u, {"admin", "teacher", "editor"})
              THEN HTTP_403_FORBIDDEN
              ELSE IF ~found THEN HTTP_404_NOT_FOUND
              ELSE IF ItemCourseArchived(item) THEN HTTP_400_BAD_REQUEST
              ELSE HTTP_200_OK
      detail == IF ~require_roles(u, {"admin", "teacher", "editor"}) THEN "role"
                ELSE IF ~found THEN "item_not_found"
                ELSE IF code = HTTP_400_BAD_REQUEST THEN "archived"
                ELSE "ok"
  IN /\ items' = IF code = HTTP_200_OK THEN DeleteOne(items, item) ELSE items
     /\ last' = Response("delete_item", code, detail)
     /\ UNCHANGED <<courses, sections, enrollments, grades, completion_state,
                    course_categories, enrollment_methods, counts, evaluation,
                    nextId,
                    users, requests>>

\* target_section_id = NoId stands for the query parameter left out
duplicate_item(u, iid, target_section_id) ==
  LET found == \E i \in items : i.id = iid
      item == CHOOSE i \in items : i.id = iid
      section_id == IF target_section_id # NoId THEN target_section_id
                    ELSE item.section_id
      sfound == \E s \in sections : s.id = section_id
      section == CHOOSE s \in sections : s.id = section_id
      scope == ItemsOf(items, section_id)
      next_position == NextPosition(scope)
      new_item == [item EXCEPT !.id = nextId, !.section_id = section_id,
                               !.course_id = section.course_id,
                               !.position = next_position]
      code == IF ~require_roles(u, {"admin", "teacher", "editor"})
              THEN HTTP_403_FORBIDDEN
              ELSE IF ~found \/ ~sfound THEN HTTP_404_NOT_FOUND
              ELSE HTTP_200_OK
      detail == IF ~require_roles(u, {"admin", "teacher", "editor"}) THEN "role"
                ELSE IF ~found THEN "item_not_found"
                ELSE IF ~sfound THEN "section_not_found"
                ELSE "ok"
  IN /\ nextId <= MaxId
     /\ items' = IF code = HTTP_200_OK THEN items \cup {new_item} ELSE items
     /\ nextId' = IF code = HTTP_200_OK THEN nextId + 1 ELSE nextId
     /\ last' = Response("duplicate_item", code, detail)
     /\ UNCHANGED <<courses, sections, enrollments, grades, completion_state,
                    course_categories, enrollment_methods, counts, evaluation,
                    users, requests>>

\* Variant: moving down the list, the sibling at new_position is left out of
\* the shift ($lt in place of $lte)
SameSectionShiftOpen(its, section_id, old_position, new_position) ==
  IF new_position > old_position
  THEN ItemsUpdateManyInc(its,
         {i \in ItemsOf(its, section_id) :
            i.position > old_position /\ i.position < new_position}, -1)
  ELSE ItemsUpdateManyInc(its,
         {i \in ItemsOf(its, section_id) :
            i.position >= new_position /\ i.position < old_position}, 1)

\* move_item, same section: the shift of the siblings between the positions
SameSectionShift(its, section_id, old_position, new_position) ==
  IF new_position > old_position
  THEN ItemsUpdateManyInc(its,
         {i \in ItemsOf(its, section_id) :
            i.position > old_position /\ i.position <= new_position}, -1)
  ELSE ItemsUpdateManyInc(its,
         {i \in ItemsOf(its, section_id) :
            i.position >= new_position /\ i.position < old_position}, 1)

\* Variant: the slot in the target section is opened after new_position
\* ($gt in place of $gte)
OtherSectionShiftAfter(its, old_section_id, old_position, target_section_id, new_position) ==
  LET closed == ItemsUpdateManyInc(its,
                  {i \in ItemsOf(its, old_section_id) :
                     i.position > old_position}, -1)
  IN ItemsUpdateManyInc(closed,
       {i \in ItemsOf(closed, target_section_id) :
          i.position > new_position}, 1)

\* move_item, other section: close the gap in the old section, open a slot
\* in the target section
OtherSectionShift(its, old_section_id, old_position, target_section_id, new_position) ==
  LET closed == ItemsUpdateManyInc(its,
                  {i \in ItemsOf(its, old_section_id) :
                     i.position > old_position}, -1)
  IN ItemsUpdateManyInc(closed,
       {i \in ItemsOf(closed, target_section_id) :
          i.position >= new_position}, 1)

\* What move_item does to course_items once the item and the target section
\* are found and the move is not a no-op
MoveItemWrites(its, item, target_section, new_position) ==
  LET shifted ==
        IF target_section.id = item.section_id
        THEN SameSectionShift(its, item.section_id, item.position,
                              new_position)
        ELSE OtherSectionShift(its, item.section_id, item.position,
                               target_section.id, new_position)
      cur == CHOOSE i \in shifted : i.id = item.id
  IN (shifted \ {cur}) \cup
       {[cur EXCEPT !.section_id = target_section.id,
                    !.course_id = target_section.course_id,
                    !.position = new_position]}

move_item(u, iid, target_section_id, new_position) ==
  LET found == \E i \in items : i.id = iid
      item == CHOOSE i \in items : i.id = iid
      sfound == \E s \in sections : s.id = target_section_id
      target_section == CHOOSE s \in sections : s.id = target_section_id
      R(code, detail) == Response("move_item", code, detail)
  IN /\ UNCHANGED <<courses, sections, enrollments, grades, completion_state,
                    course_categories, enrollment_methods, counts, evaluation,
                    nextId,
                    users, requests>>
     /\ IF ~require_roles(u, {"admin", "teacher", "editor"})
        THEN last' = R(HTTP_403_FORBIDDEN, "role") /\ UNCHANGED items
        ELSE IF ~found
        THEN last' = R(HTTP_404_NOT_FOUND, "item_not_found") /\ UNCHANGED items
        ELSE IF ~sfound
        THEN last' = R(HTTP_404_NOT_FOUND, "section_not_found")
             /\ UNCHANGED items
        ELSE IF target_section_id = item.section_id
                /\ new_position = item.position
        THEN last' = R(HTTP_200_OK, "no_change") /\ UNCHANGED items
        ELSE /\ items' = MoveItemWrites(items, item, target_section,
                                        new_position)
             /\ last' = R(HTTP_200_OK,
                          IF target_section_id = item.section_id
                          THEN "moved_same_section"
                          ELSE "moved_other_section")

toggle_item_visibility(u, iid, visible) ==
  LET found == \E i \in items : i.id = iid
      item == CHOOSE i \in items : i.id = iid
      code == IF ~require_roles(u, {"admin", "teacher", "editor"})
              THEN HTTP_403_FORBIDDEN
              ELSE IF ~found THEN HTTP_404_NOT_FOUND
              ELSE HTTP_200_OK
  IN /\ items' = IF code = HTTP_200_OK
                 THEN (items \ {item}) \cup {[item EXCEPT !.visible = visible]}
                 ELSE items
     /\ last' = Response("toggle_item_visibility", code,
                         IF code = HTTP_403_FORBIDDEN THEN "role"
                         ELSE IF code = HTTP_404_NOT_FOUND THEN "item_not_found"
                         ELSE "ok")
     /\ UNCHANGED <<courses, sections, enrollments, grades, completion_state,
                    course_categories, enrollment_methods, counts, evaluation,
                    nextId,
                    users, requests>>

----------------------------------------------------------------------------
(* routes/courses.py *)

\* update_one({"id": category_id}, {"$inc": {"course_count": by}}) for each
\* id of category_ids; an id that matches no category changes nothing
CategoriesInc(cats, category_ids, by) ==
  {IF c.id \in category_ids THEN [c EXCEPT !.course_count = @ + by] ELSE c :
     c \in cats}

\* The decrements of bulk delete: one per deleted course, on its category
BulkDeleteCategories(cats, deleted) ==
  {[c EXCEPT !.course_count =
      @ - Cardinality({d \in deleted : d.category_id = c.id})] : c \in cats}

\* Variant: the lookup sees draft courses only
ShortnameTakenByDraft(shortname) ==
  \E c \in courses : c.shortname = shortname /\ c.status = "draft"

\* find_one({"shortname": shortname}) returns a course
ShortnameTaken(shortname) == \E c \in courses : c.shortname = shortname

\* A CourseUpdate payload that carries the field shortname only
ShortnamePatches == {[fields |-> {"shortname"}, shortname |-> sn] : sn \in ShortNames}

\* A CourseUpdate payload restricted to the fields status and visible
CoursePatches ==
  {[fields |-> f, status |-> st, visible |-> v] :
     f \in {{"status"}, {"visible"}, {"status", "visible"}},
     st \in CourseStatus, v \in BOOLEAN}

\* Status get_course answers with
get_course_status(u, cid) ==
  IF ~CourseExists(cid) THEN HTTP_404_NOT_FOUND
  ELSE IF /\ RoleOf(u) = "student"
          /\ (CourseOf(cid).status # "published" \/ ~CourseOf(cid).visible)
          /\ ~\E e \in enrollments : /\ e.course_id = cid
                                      /\ e.user_id = u
                                      /\ e.status = "active"
       THEN HTTP_403_FORBIDDEN
  ELSE HTTP_200_OK

get_course(u, cid) ==
  /\ last' = Response("get_course", get_course_status(u, cid),
                      AccessDetail(get_course_status(u, cid)))
  /\ UNCHANGED <<courses, sections, items, enrollments, grades,
                 completion_state, course_categories,
                    enrollment_methods, counts, evaluation, nextId,
                 users, requests>>

update_course(u, cid, patch) ==
  LET course == CourseOf(cid)
      teacher_denied ==
        /\ RoleOf(u) = "teacher"
        /\ course.created_by # u
        /\ ~\E e \in enrollments : /\ e.course_id = cid
                                    /\ e.user_id = u
                                    /\ e.role = "teacher"
      shortname_taken ==
        /\ "shortname" \in patch.fields
        /\ patch.shortname # course.shortname
        /\ ShortnameTaken(patch.shortname)
      updated == [course EXCEPT
                    !.shortname = IF "shortname" \in patch.fields
                                  THEN patch.shortname ELSE @,
                    !.category_id = IF "category_id" \in patch.fields
                                    THEN patch.category_id ELSE @,
                    !.status = IF "status" \in patch.fields
                               THEN patch.status ELSE @,
                    !.visible = IF "visible" \in patch.fields
                                THEN patch.visible ELSE @,
                    !.last_modified_by = u]
      code == IF ~require_roles(u, {"admin", "teacher", "editor"})
              THEN HTTP_403_FORBIDDEN
              ELSE IF ~CourseExists(cid) THEN HTTP_404_NOT_FOUND
              ELSE IF course.status = "archived" THEN HTTP_400_BAD_REQUEST
              ELSE IF teacher_denied THEN HTTP_403_FORBIDDEN
              ELSE IF shortname_taken THEN HTTP_400_BAD_REQUEST
              ELSE HTTP_200_OK
      detail == IF ~require_roles(u, {"admin", "teacher", "editor"}) THEN "role"
                ELSE IF code = HTTP_403_FORBIDDEN THEN "no_permission"
                ELSE IF code = HTTP_400_BAD_REQUEST
                        /\ course.status # "archived"
                THEN "shortname_taken"
                ELSE AccessDetail(code)
  IN /\ courses' = IF code = HTTP_200_OK
                   THEN (courses \ {course}) \cup {updated} ELSE courses
     /\ last' = Response("update_course", code, detail)
     /\ UNCHANGED <<sections, items, enrollments, grades, completion_state,
                    course_categories, enrollment_methods, counts, evaluation,
                    nextId,
                    users, requests>>

delete_course(u, cid) ==
  LET code == IF ~require_roles(u, {"admin"}) THEN HTTP_403_FORBIDDEN
              ELSE IF ~CourseExists(cid) THEN HTTP_404_NOT_FOUND
              ELSE HTTP_200_OK
      ok == code = HTTP_200_OK
  IN /\ sections' = IF ok THEN {s \in sections : s.course_id # cid}
                    ELSE sections
     /\ items' = IF ok THEN {i \in items : i.course_id # cid} ELSE items
     /\ enrollments' = IF ok THEN {e \in enrollments : e.course_id # cid}
                       ELSE enrollments
     /\ grades' = IF ok THEN {g \in grades : g.course_id # cid} ELSE grades
     /\ completion_state' = IF ok
                            THEN {x \in completion_state : x.course_id # cid}
                            ELSE completion_state
     /\ courses' = IF ok THEN {c \in courses : c.id # cid} ELSE courses
     /\ course_categories' =
          IF ok THEN CategoriesInc(course_categories,
                                   {CourseOf(cid).category_id}, -1)
          ELSE course_categories
     /\ last' = Response("delete_course", code,
                         IF code = HTTP_403_FORBIDDEN THEN "role"
                         ELSE AccessDetail(code))
     /\ UNCHANGED <<nextId, enrollment_methods, counts, evaluation,
                    users, requests>>

\* The document Course(**course_data.model_dump(), created_by=...) dumps to
Course(cid, shortname, category_id, owner) ==
  [id |-> cid, shortname |-> shortname, category_id |-> category_id,
   status |-> "draft", visible |-> TRUE, created_by |-> owner,
   last_modified_by |-> "none"]

\* The shortname of each course of the initial states
DefaultShortname(cid) == IF cid = "c1" THEN "s1" ELSE "s2"

BulkActions == {"hide", "show", "suspend", "archive", "delete", "other"}

\* update_many({"id": {"$in": course_ids}}, {"$set": update_data})
BulkUpdate(course, action) ==
  CASE action = "hide" -> [course EXCEPT !.visible = FALSE]
    [] action = "show" -> [course EXCEPT !.visible = TRUE]
    [] action = "suspend" -> [course EXCEPT !.status = "suspended"]
    [] action = "archive" -> [course EXCEPT !.status = "archived"]
    [] OTHER -> course

bulk_course_action(u, course_ids, action) ==
  LET code == IF ~require_roles(u, {"admin", "teacher"}) THEN HTTP_403_FORBIDDEN
              ELSE IF action = "delete" /\ RoleOf(u) # "admin"
              THEN HTTP_403_FORBIDDEN
              ELSE IF action \notin {"hide", "show", "suspend", "archive",
                                     "delete"}
              THEN HTTP_400_BAD_REQUEST
              ELSE HTTP_200_OK
      detail == IF ~require_roles(u, {"admin", "teacher"}) THEN "role"
                ELSE IF code = HTTP_403_FORBIDDEN THEN "admin_only"
                ELSE IF code = HTTP_400_BAD_REQUEST THEN "invalid_action"
                ELSE action
      del == code = HTTP_200_OK /\ action = "delete"
      \* the ids of the request for which find_one returns a course
      gone == {cid \in course_ids : CourseExists(cid)}
  IN /\ courses' = IF code # HTTP_200_OK THEN courses
                   ELSE IF del THEN {c \in courses : c.id \notin gone}
                   ELSE {IF c.id \in course_ids THEN BulkUpdate(c, action)
                         ELSE c : c \in courses}
     /\ sections' = IF del THEN {s \in sections : s.course_id \notin gone}
                    ELSE sections
     /\ items' = IF del THEN {i \in items : i.course_id \notin gone}
                 ELSE items
     /\ enrollments' = IF del
                       THEN {e \in enrollments : e.course_id \notin gone}
                       ELSE enrollments
     /\ course_categories' =
          IF del THEN BulkDeleteCategories(course_categories,
                                           {c \in courses : c.id \in gone})
          ELSE course_categories
     /\ last' = Response("bulk_course_action", code, detail)
     /\ UNCHANGED <<grades, completion_state, enrollment_methods, counts,
                    evaluation, nextId,
                    users, requests>>

\* Variant: the numbered sections only, without Section 0
SectionsAtCreateNumbered(cid, num_sections, first_id) ==
  {[id |-> first_id + i - 1, course_id |-> cid, position |-> i,
    visible |-> TRUE, title |-> "Tema"] : i \in 1 .. num_sections}

\* The sections create_course inserts: Section 0 plus num_sections more
SectionsAtCreate(cid, num_sections, first_id) ==
  {[id |-> first_id + i, course_id |-> cid, position |-> i, visible |-> TRUE,
    title |-> IF i = 0 THEN "Introduccion" ELSE "Tema"] :
     i \in {0} \cup (1 .. num_sections)}

\* uuid4 never hands out an id that the store already holds
FreshCourseId(cid) ==
  /\ ~CourseExists(cid)
  /\ \A x \in sections \cup items \cup enrollments \cup grades
                \cup completion_state : x.course_id # cid

create_course(u, cid, shortname, category_id, num_sections) ==
  LET code == IF ~require_roles(u, {"admin", "teacher"}) THEN HTTP_403_FORBIDDEN
              ELSE IF ShortnameTaken(shortname) THEN HTTP_400_BAD_REQUEST
              ELSE IF ~\E c \in course_categories : c.id = category_id
              THEN HTTP_400_BAD_REQUEST
              ELSE HTTP_200_OK
      detail == IF code = HTTP_403_FORBIDDEN THEN "role"
                ELSE IF ShortnameTaken(shortname) THEN "shortname_taken"
                ELSE IF code = HTTP_400_BAD_REQUEST THEN "category_not_found"
                ELSE "ok"
      ok == code = HTTP_200_OK
      created == SectionsAtCreate(cid, num_sections, nextId)
  IN /\ FreshCourseId(cid)
     /\ ok => nextId + Cardinality(created) - 1 <= MaxId
     /\ courses' = IF ok THEN courses \cup {Course(cid, shortname, category_id, u)}
                   ELSE courses
     /\ sections' = IF ok THEN sections \cup created ELSE sections
     /\ course_categories' =
          IF ok THEN CategoriesInc(course_categories, {category_id}, 1)
          ELSE course_categories
     /\ nextId' = IF ok THEN nextId + Cardinality(created) ELSE nextId
     /\ last' = Response("create_course", code, detail)
     /\ UNCHANGED <<items, enrollments, grades, completion_state,
                    enrollment_methods, counts, evaluation,
                    users, requests>>

\* The place of id among ids, from 0: the order in which the copies are made
Rank(id, ids) == Cardinality({x \in ids : x < id})

\* The documents left after k of docs have been taken away, in every way
RECURSIVE Without(_, _)
Without(docs, k) ==
  IF k = 0 THEN {docs}
  ELSE UNION {Without(docs \ {d}, k - 1) : d \in docs}

\* The lengths that duplicate_course passes to to_list
SectionListLimit == 100
ItemListLimit == 1000

\* find(query).to_list(length) without a sort: at most length of the
\* matching documents, in the order the store keeps them, which the caller
\* does not control
ToList(docs, length) ==
  IF Cardinality(docs) <= length THEN {docs}
  ELSE Without(docs, Cardinality(docs) - length)

\* duplicate_course, given the sections and the items that the two find
\* calls returned
DuplicateCourseOf(u, cid, new_cid, new_shortname, old_sections, old_items) ==
  LET course == CourseOf(cid)
      code == IF ~require_roles(u, {"admin", "teacher"}) THEN HTTP_403_FORBIDDEN
              ELSE IF ~CourseExists(cid) THEN HTTP_404_NOT_FOUND
              ELSE IF ShortnameTaken(new_shortname) THEN HTTP_400_BAD_REQUEST
              ELSE HTTP_200_OK
      detail == IF code = HTTP_403_FORBIDDEN THEN "role"
                ELSE IF code = HTTP_400_BAD_REQUEST THEN "shortname_taken"
                ELSE AccessDetail(code)
      ok == code = HTTP_200_OK
      sids == {x.id : x \in old_sections}
      iids == {i.id : i \in old_items}
      section_id_map(sid) == IF sid \in sids THEN nextId + Rank(sid, sids)
                             ELSE sid
      copies == Cardinality(sids) + Cardinality(iids)
  IN /\ FreshCourseId(new_cid)
     /\ ok => nextId + copies - 1 <= MaxId
     /\ courses' = IF ok
                   THEN courses \cup {[course EXCEPT !.id = new_cid,
                                                     !.shortname = new_shortname,
                                                     !.status = "draft",
                                                     !.created_by = u]}
                   ELSE courses
     /\ sections' = IF ok
                    THEN sections \cup
                           {[x EXCEPT !.id = section_id_map(x.id),
                                      !.course_id = new_cid] :
                              x \in old_sections}
                    ELSE sections
     /\ items' = IF ok
                 THEN items \cup
                        {[i EXCEPT !.id = nextId + Cardinality(sids)
                                            + Rank(i.id, iids),
                                   !.course_id = new_cid,
                                   !.section_id = section_id_map(i.section_id)] :
                           i \in old_items}
                 ELSE items
     /\ course_categories' =
          IF ok THEN CategoriesInc(course_categories, {course.category_id}, 1)
          ELSE course_categories
     /\ nextId' = IF ok THEN nextId + copies ELSE nextId
     /\ last' = Response("duplicate_course", code, detail)
     /\ UNCHANGED <<enrollments, grades, completion_state, enrollment_methods,
                    counts, evaluation,
                    users, requests>>

duplicate_course(u, cid, new_cid, new_shortname) ==
  \E old_sections \in ToList({x \in sections : x.course_id = cid},
                              SectionListLimit),
     old_items \in ToList({i \in items : i.course_id = cid}, ItemListLimit) :
    DuplicateCourseOf(u, cid, new_cid, new_shortname, old_sections, old_items)

----------------------------------------------------------------------------
(* routes/enrollments.py *)

\* Variant: only an active enrollment counts as existing
AlreadyEnrolledActive(enrs, cid, user_id) ==
  \E e \in enrs : /\ e.course_id = cid /\ e.user_id = user_id
                   /\ e.status = "active"

\* find_one({"course_id": cid, "user_id": user_id}) returns an enrollment
AlreadyEnrolled(enrs, cid, user_id) ==
  \E e \in enrs : e.course_id = cid /\ e.user_id = user_id

enroll_user(u, cid, user_id, role) ==
  LET code == IF ~require_roles(u, {"admin", "teacher"}) THEN HTTP_403_FORBIDDEN
              ELSE IF ~CourseExists(cid) THEN HTTP_404_NOT_FOUND
              ELSE IF user_id \notin Users THEN HTTP_404_NOT_FOUND
              ELSE IF AlreadyEnrolled(enrollments, cid, user_id)
              THEN HTTP_400_BAD_REQUEST
              ELSE HTTP_200_OK
      detail == IF code = HTTP_403_FORBIDDEN THEN "role"
                ELSE IF code = HTTP_404_NOT_FOUND THEN "not_found"
                ELSE IF code = HTTP_400_BAD_REQUEST THEN "already_enrolled"
                ELSE "ok"
      enrollment == [id |-> nextId, course_id |-> cid, user_id |-> user_id,
                     role |-> role, status |-> "active"]
  IN /\ nextId <= MaxId
     /\ enrollments' = IF code = HTTP_200_OK
                       THEN enrollments \cup {enrollment} ELSE enrollments
     /\ nextId' = IF code = HTTP_200_OK THEN nextId + 1 ELSE nextId
     /\ last' = Response("enroll_user", code, detail)
     /\ UNCHANGED <<courses, sections, items, grades, completion_state,
                    course_categories, enrollment_methods, counts, evaluation,
                    users, requests>>

\* An EnrollmentUpdate payload
EnrollmentPatches ==
  {[fields |-> f, role |-> r, status |-> st] :
     f \in {{"role"}, {"status"}, {"role", "status"}},
     r \in EnrollmentRole, st \in EnrollmentStatus}

update_enrollment(u, eid, patch) ==
  LET found == \E e \in enrollments : e.id = eid
      enrollment == CHOOSE e \in enrollments : e.id = eid
      updated == [enrollment EXCEPT
                    !.role = IF "role" \in patch.fields THEN patch.role ELSE @,
                    !.status = IF "status" \in patch.fields
                               THEN patch.status ELSE @]
      code == IF ~require_roles(u, {"admin", "teacher"}) THEN HTTP_403_FORBIDDEN
              ELSE IF ~found THEN HTTP_404_NOT_FOUND
              ELSE HTTP_200_OK
  IN /\ enrollments' = IF code = HTTP_200_OK
                       THEN (enrollments \ {enrollment}) \cup {updated}
                       ELSE enrollments
     /\ last' = Response("update_enrollment", code,
                         IF code = HTTP_403_FORBIDDEN THEN "role"
                         ELSE IF code = HTTP_404_NOT_FOUND THEN "not_found"
                         ELSE "ok")
     /\ UNCHANGED <<courses, sections, items, grades, completion_state,
                    course_categories, enrollment_methods, counts, evaluation,
                    nextId,
                    users, requests>>

unenroll_user(u, eid) ==
  LET found == \E e \in enrollments : e.id = eid
      code == IF ~require_roles(u, {"admin", "teacher"}) THEN HTTP_403_FORBIDDEN
              ELSE IF ~found THEN HTTP_404_NOT_FOUND
              ELSE HTTP_200_OK
  IN /\ enrollments' = IF code = HTTP_200_OK
                       THEN {e \in enrollments : e.id # eid} ELSE enrollments
     /\ last' = Response("unenroll_user", code,
                         IF code = HTTP_403_FORBIDDEN THEN "role"
                         ELSE IF code = HTTP_404_NOT_FOUND THEN "not_found"
                         ELSE "ok")
     /\ UNCHANGED <<courses, sections, items, grades, completion_state,
                    course_categories, enrollment_methods, counts, evaluation,
                    nextId,
                    users, requests>>

\* Variant: an id of no user is passed over without counting it
BulkEnrollStepUncounted(acc, cid, user_id, role, first_id) ==
  IF user_id \notin Users THEN acc
  ELSE IF AlreadyEnrolled(acc.enrollments, cid, user_id)
  THEN [acc EXCEPT !.skipped = @ + 1]
  ELSE [acc EXCEPT !.enrollments = @ \cup
                      {[id |-> first_id + acc.enrolled, course_id |-> cid,
                        user_id |-> user_id, role |-> role,
                        status |-> "active"]},
                   !.enrolled = @ + 1]

\* One pass of the loop of bulk_enroll: acc holds the enrollments collection
\* and the two counters after the ids processed so far
BulkEnrollStep(acc, cid, user_id, role, first_id) ==
  IF user_id \notin Users THEN [acc EXCEPT !.skipped = @ + 1]
  ELSE IF AlreadyEnrolled(acc.enrollments, cid, user_id)
  THEN [acc EXCEPT !.skipped = @ + 1]
  ELSE [acc EXCEPT !.enrollments = @ \cup
                      {[id |-> first_id + acc.enrolled, course_id |-> cid,
                        user_id |-> user_id, role |-> role,
                        status |-> "active"]},
                   !.enrolled = @ + 1]

RECURSIVE BulkEnrollLoop(_, _, _, _, _)
BulkEnrollLoop(acc, cid, user_ids, role, first_id) ==
  IF user_ids = <<>> THEN acc
  ELSE BulkEnrollLoop(BulkEnrollStep(acc, cid, Head(user_ids), role, first_id),
                      cid, Tail(user_ids), role, first_id)

bulk_enroll(u, cid, user_ids, role) ==
  LET code == IF ~require_roles(u, {"admin", "teacher"}) THEN HTTP_403_FORBIDDEN
              ELSE IF ~CourseExists(cid) THEN HTTP_404_NOT_FOUND
              ELSE HTTP_200_OK
      ok == code = HTTP_200_OK
      done == BulkEnrollLoop([enrollments |-> enrollments, enrolled |-> 0,
                              skipped |-> 0], cid, user_ids, role, nextId)
  IN /\ ok => nextId + done.enrolled - 1 <= MaxId
     /\ enrollments' = IF ok THEN done.enrollments ELSE enrollments
     /\ counts' = IF ok THEN [enrolled |-> done.enrolled,
                              skipped |-> done.skipped]
                  ELSE counts
     /\ nextId' = IF ok THEN nextId + done.enrolled ELSE nextId
     /\ last' = Response("bulk_enroll", code,
                         IF code = HTTP_403_FORBIDDEN THEN "role"
                         ELSE IF code = HTTP_404_NOT_FOUND THEN "not_found"
                         ELSE "ok")
     /\ UNCHANGED <<courses, sections, items, grades, completion_state,
                    course_categories, enrollment_methods, evaluation,
                    users, requests>>

\* The method document; its id and created_at are never read back
create_enrollment_method(u, cid, method_type, enrollment_code, role) ==
  LET code == IF ~require_roles(u, {"admin", "teacher"}) THEN HTTP_403_FORBIDDEN
              ELSE IF ~CourseExists(cid) THEN HTTP_404_NOT_FOUND
              ELSE HTTP_200_OK
      method == [course_id |-> cid, type |-> method_type,
                 code |-> enrollment_code, role |-> role, enabled |-> TRUE]
  IN /\ enrollment_methods' = IF code = HTTP_200_OK
                              THEN enrollment_methods \cup {method}
                              ELSE enrollment_methods
     /\ last' = Response("create_enrollment_method", code,
                         IF code = HTTP_403_FORBIDDEN THEN "role"
                         ELSE IF code = HTTP_404_NOT_FOUND THEN "not_found"
                         ELSE "ok")
     /\ UNCHANGED <<courses, sections, items, enrollments, grades,
                    completion_state, course_categories, counts, evaluation,
                    nextId,
                    users, requests>>

\* find_one({"code": code, "enabled": True}) returns any one of the methods
\* that match; get_current_user admits every authenticated user
self_enroll_with_code(u, code) ==
  LET matches == {m \in enrollment_methods : m.code = code /\ m.enabled}
  IN /\ nextId <= MaxId
     /\ IF matches = {}
        THEN /\ last' = Response("self_enroll_with_code",
                                 HTTP_400_BAD_REQUEST, "invalid_code")
             /\ UNCHANGED <<enrollments, nextId>>
        ELSE \E method \in matches :
               IF AlreadyEnrolled(enrollments, method.course_id, u)
               THEN /\ last' = Response("self_enroll_with_code",
                                        HTTP_400_BAD_REQUEST,
                                        "already_enrolled")
                    /\ UNCHANGED <<enrollments, nextId>>
               ELSE /\ enrollments' = enrollments \cup
                         {[id |-> nextId, course_id |-> method.course_id,
                           user_id |-> u, role |-> method.role,
                           status |-> "active"]}
                    /\ nextId' = nextId + 1
                    /\ last' = Response("self_enroll_with_code",
                                        HTTP_200_OK, "ok")
     /\ UNCHANGED <<courses, sections, items, grades, completion_state,
                    course_categories, enrollment_methods, counts, evaluation,
                    users, requests>>

----------------------------------------------------------------------------
(* routes/evaluation.py *)

set_grade(u, user_id, item_id, course_id, grade) ==
  LET key(g) == /\ g.user_id = user_id /\ g.item_id = item_id
                /\ g.course_id = course_id
      exists == \E g \in grades : key(g)
      existing == CHOOSE g \in grades : key(g)
      ok == require_roles(u, {"admin", "teacher"})
      code == IF ok THEN HTTP_200_OK ELSE HTTP_403_FORBIDDEN
  IN /\ nextId <= MaxId
     /\ grades' = IF ~ok THEN grades
                  ELSE IF exists
                  THEN {IF g.id = existing.id THEN [g EXCEPT !.grade = grade]
                        ELSE g : g \in grades}
                  ELSE grades \cup {[id |-> nextId, user_id |-> user_id,
                                     item_id |-> item_id,
                                     course_id |-> course_id, grade |-> grade]}
     /\ nextId' = IF ok /\ ~exists THEN nextId + 1 ELSE nextId
     /\ last' = Response("set_grade", code, IF ok THEN "ok" ELSE "role")
     /\ UNCHANGED <<courses, sections, items, enrollments, completion_state,
                    course_categories, enrollment_methods, counts, evaluation,
                    users, requests>>

\* Python values that are not strings: None, True, False
PyNone == "py:None"
PyTrue == "py:True"
PyFalse == "py:False"

\* str(value)
str(value) ==
  CASE value = PyNone -> "None"
    [] value = PyTrue -> "True"
    [] value = PyFalse -> "False"
    [] OTHER -> value

\* s.lower(), on the strings of the model
lower(s) ==
  CASE s = "None" -> "none"
    [] s \in {"True", "TRUE"} -> "true"
    [] s \in {"False", "FALSE"} -> "false"
    [] OTHER -> s

\* score: None of an attempt that has not been submitted
NoScore == -1000000

QuestionIds == {"q1", "q2"}

\* answers: {} of a new attempt; answers.get(id) of an absent key is None
NoAnswers == [id \in QuestionIds |-> PyNone]

\* find({"id": {"$in": quiz.get("question_ids", [])}})
QuizQuestions(quiz) == {q \in questions : q.id \in quiz.question_ids}

\* sum(q.get("points", 10) for q in ...)
RECURSIVE SumPoints(_)
SumPoints(qs) ==
  IF qs = {} THEN 0
  ELSE LET q == CHOOSE x \in qs : TRUE
       IN q.points + SumPoints(qs \ {q})

\* next((o for o in q.get("options", []) if o.get("correct")), None); here
\* for a list that has such an option
FirstCorrect(options) ==
  LET flagged == {i \in DOMAIN options : options[i].correct}
  IN options[CHOOSE i \in flagged : \A j \in flagged : i <= j]

\* The branch of the scoring loop that adds the points of question q
EarnsPoints(q, user_answer) ==
  IF q.type = "multiple_choice"
  THEN /\ \E i \in DOMAIN q.options : q.options[i].correct
       /\ user_answer = FirstCorrect(q.options).id
  ELSE IF q.type = "true_false"
  THEN lower(str(user_answer)) = lower(str(q.correct_answer))
  ELSE FALSE

EarnedPoints(qs, answers) ==
  SumPoints({q \in qs : EarnsPoints(q, answers[q.id])})

\* Variant: the hundredths are cut off
Truncate2(num, den) == num \div den

\* round(num / den): the nearest integer, the even one of two equally near
Round2(num, den) ==
  LET f == num \div den
      r == num % den
  IN IF 2 * r < den THEN f
     ELSE IF 2 * r > den THEN f + 1
     ELSE IF f % 2 = 0 THEN f ELSE f + 1

\* round(score, 2), in hundredths, of
\* score = (earned_points / total_points * 100) if total_points > 0 else 0
RoundedScore(earned_points, total_points) ==
  IF total_points > 0 THEN Round2(earned_points * 10000, total_points) ELSE 0

RECURSIVE GCD(_, _)
GCD(a, b) == IF b = 0 THEN a ELSE GCD(b, a % b)

\* The number num / den (den > 0) in lowest terms
Fraction(num, den) ==
  LET g == GCD(IF num < 0 THEN -num ELSE num, den)
  IN [num |-> num \div g, den |-> den \div g]

\* score as the grades collection receives it, not rounded
Score(earned_points, total_points) ==
  IF total_points > 0 THEN Fraction(earned_points * 100, total_points)
  ELSE Fraction(0, 1)

\* Variant: the document is inserted whether or not the key has a grade
GradeUpsertInsert(grs, user_id, item_id, course_id, grade, new_id) ==
  {grs \cup {[id |-> new_id, user_id |-> user_id, item_id |-> item_id,
              course_id |-> course_id, grade |-> grade]}}

\* grades.update_one(key, {"$set": {"id": uuid4, "grade": grade}},
\* upsert=True): one matching document is updated, or one is inserted
GradeUpsert(grs, user_id, item_id, course_id, grade, new_id) ==
  LET matches == {g \in grs : /\ g.user_id = user_id /\ g.item_id = item_id
                               /\ g.course_id = course_id}
      doc == [id |-> new_id, user_id |-> user_id, item_id |-> item_id,
              course_id |-> course_id, grade |-> grade]
  IN IF matches = {} THEN {grs \cup {doc}}
     ELSE {(grs \ {g}) \cup {doc} : g \in matches}

\* Variant: the limit is reached one attempt later
AttemptsExhaustedLate(quiz, attempt_count) ==
  /\ quiz.limited /\ quiz.max_attempts # 0
  /\ attempt_count > quiz.max_attempts

\* quiz.get("max_attempts") and attempt_count >= quiz["max_attempts"]:
\* an absent limit (limited = FALSE) and the limit 0 are falsy
AttemptsExhausted(quiz, attempt_count) ==
  /\ quiz.limited /\ quiz.max_attempts # 0
  /\ attempt_count >= quiz.max_attempts

start_quiz_attempt(u, quiz_id) ==
  LET found == \E q \in quizzes : q.id = quiz_id
      quiz == CHOOSE q \in quizzes : q.id = quiz_id
      attempt_count == Cardinality({a \in quiz_attempts :
                                      a.quiz_id = quiz_id /\ a.user_id = u})
      code == IF ~found THEN HTTP_404_NOT_FOUND
              ELSE IF AttemptsExhausted(quiz, attempt_count)
              THEN HTTP_400_BAD_REQUEST
              ELSE HTTP_200_OK
      ok == code = HTTP_200_OK
      attempt == [id |-> nextId, quiz_id |-> quiz_id, user_id |-> u,
                  course_id |-> quiz.course_id,
                  attempt_number |-> attempt_count + 1,
                  answers |-> NoAnswers, score |-> NoScore,
                  status |-> "in_progress"]
  IN /\ ok => nextId <= MaxId
     /\ quiz_attempts' = IF ok THEN quiz_attempts \cup {attempt}
                         ELSE quiz_attempts
     /\ nextId' = IF ok THEN nextId + 1 ELSE nextId
     /\ last' = Response("start_quiz_attempt", code,
                         IF code = HTTP_404_NOT_FOUND THEN "not_found"
                         ELSE IF code = HTTP_400_BAD_REQUEST THEN "max_attempts"
                         ELSE "ok")
     /\ UNCHANGED <<courses, sections, items, enrollments, grades,
                    completion_state, course_categories, enrollment_methods,
                    counts, quizzes, questions, assignments, submissions,
                    users, requests>>

\* Variant: an attempt can be sent whatever its status
AttemptOpenAlways(attempt) == attempt.status \in {"in_progress", "completed"}

\* attempt["status"] != "in_progress" rejects the request
AttemptOpen(attempt) == attempt.status = "in_progress"

submit_quiz_attempt(u, attempt_id, answers) ==
  LET found == \E a \in quiz_attempts : a.id = attempt_id
      attempt == CHOOSE a \in quiz_attempts : a.id = attempt_id
      quiz == CHOOSE q \in quizzes : q.id = attempt.quiz_id
      code == IF ~found THEN HTTP_404_NOT_FOUND
              ELSE IF attempt.user_id # u THEN HTTP_403_FORBIDDEN
              ELSE IF ~AttemptOpen(attempt) THEN HTTP_400_BAD_REQUEST
              ELSE HTTP_200_OK
      ok == code = HTTP_200_OK
      total_points == SumPoints(QuizQuestions(quiz))
      earned_points == EarnedPoints(QuizQuestions(quiz), answers)
      completed == [attempt EXCEPT
                      !.answers = answers,
                      !.score = RoundedScore(earned_points, total_points),
                      !.status = "completed"]
      graded == ok /\ quiz.item_id # NoId
  IN /\ graded => nextId <= MaxId
     /\ quiz_attempts' = IF ok THEN (quiz_attempts \ {attempt}) \cup {completed}
                         ELSE quiz_attempts
     /\ IF graded
        THEN grades' \in GradeUpsert(grades, u, quiz.item_id, quiz.course_id,
                                     Score(earned_points, total_points), nextId)
        ELSE grades' = grades
     /\ nextId' = IF graded THEN nextId + 1 ELSE nextId
     /\ last' = Response("submit_quiz_attempt", code,
                         IF code = HTTP_404_NOT_FOUND THEN "not_found"
                         ELSE IF code = HTTP_403_FORBIDDEN THEN "not_owner"
                         ELSE IF code = HTTP_400_BAD_REQUEST THEN "already_sent"
                         ELSE "ok")
     /\ UNCHANGED <<courses, sections, items, enrollments, completion_state,
                    course_categories, enrollment_methods, counts, quizzes,
                    questions, assignments, submissions,
                    users, requests>>

grade_submission(u, submission_id, grade) ==
  LET found == \E s \in submissions : s.id = submission_id
      submission == CHOOSE s \in submissions : s.id = submission_id
      code == IF ~require_roles(u, {"admin", "teacher"}) THEN HTTP_403_FORBIDDEN
              ELSE IF ~found THEN HTTP_404_NOT_FOUND
              ELSE HTTP_200_OK
      ok == code = HTTP_200_OK
      known == \E a \in assignments : a.id = submission.assignment_id
      assignment == CHOOSE a \in assignments : a.id = submission.assignment_id
      graded == ok /\ known /\ assignment.item_id # NoId
  IN /\ graded => nextId <= MaxId
     /\ submissions' = IF ok
                       THEN (submissions \ {submission})
                              \cup {[submission EXCEPT !.grade = grade,
                                                       !.status = "graded"]}
                       ELSE submissions
     /\ IF graded
        THEN grades' \in GradeUpsert(grades, submission.user_id,
                                     assignment.item_id, submission.course_id,
                                     grade, nextId)
        ELSE grades' = grades
     /\ nextId' = IF graded THEN nextId + 1 ELSE nextId
     /\ last' = Response("grade_submission", code,
                         IF code = HTTP_403_FORBIDDEN THEN "role"
                         ELSE IF code = HTTP_404_NOT_FOUND THEN "not_found"
                         ELSE "ok")
     /\ UNCHANGED <<courses, sections, items, enrollments, completion_state,
                    course_categories, enrollment_methods, counts, quizzes,
                    questions, quiz_attempts, assignments,
                    users, requests>>

----------------------------------------------------------------------------
(* routes/items.py, one store operation at a time.  A handler is a         *)
(* coroutine: at each await of a store call another request may run, and   *)
(* nothing in the handlers or in the store holds a scope between the       *)
(* calls.  A request under way is a record of requests: what it read       *)
(* (doc, target, new_position) and the write that comes next (pc).  The    *)
(* answered request stays in requests with pc = "done".  The fields alone  *)
(* and regular are history: alone is TRUE while no other request has been  *)
(* under way at the same time, regular says that the request read a dense  *)
(* scope and asks for a position inside it.                                *)

RequestIds == {"r1", "r2"}

\* The request id has been used
UnderWay(rid) == \E r \in requests : r.rid = rid

\* The requests that have read and have not been answered
Running == {r \in requests : r.pc # "done"}

\* The requests other than rid; those under way have now shared the store
\* with rid
Overlapped(rid) ==
  {IF r.pc = "done" THEN r ELSE [r EXCEPT !.alone = FALSE] :
     r \in {q \in requests : q.rid # rid}}

\* move_item up to its first write: the two find_one calls and the early
\* returns (items.py:279-303)
MoveItemRead(rid, u, iid, target_section_id, new_position) ==
  LET found == \E i \in items : i.id = iid
      item == CHOOSE i \in items : i.id = iid
      sfound == \E s \in sections : s.id = target_section_id
      target_section == CHOOSE s \in sections : s.id = target_section_id
      scope == ItemsOf(items, target_section_id)
      R(code, detail) == Response("move_item", code, detail)
  IN /\ ~UnderWay(rid)
     /\ UNCHANGED <<courses, sections, items, enrollments, grades,
                    completion_state, course_categories, enrollment_methods,
                    counts, evaluation, nextId, users>>
     /\ IF ~require_roles(u, {"admin", "teacher", "editor"})
        THEN last' = R(HTTP_403_FORBIDDEN, "role") /\ UNCHANGED requests
        ELSE IF ~found
        THEN last' = R(HTTP_404_NOT_FOUND, "item_not_found")
             /\ UNCHANGED requests
        ELSE IF ~sfound
        THEN last' = R(HTTP_404_NOT_FOUND, "section_not_found")
             /\ UNCHANGED requests
        ELSE IF target_section_id = item.section_id
                /\ new_position = item.position
        THEN last' = R(HTTP_200_OK, "no_change") /\ UNCHANGED requests
        ELSE /\ requests' = Overlapped(rid) \cup
                  {[rid |-> rid, op |-> "move_item", doc |-> item,
                    target |-> target_section, new_position |-> new_position,
                    pc |-> "shift",
                    alone |-> Running = {},
                    regular |-> /\ Dense(ItemsOf(items, item.section_id))
                                /\ Dense(scope)
                                /\ 0 <= new_position
                                /\ new_position <
                                     Cardinality(scope \cup {item})]}
             /\ UNCHANGED last

\* The next store write of the move_item request rid: the update_many of
\* the same-section branch, or the two of the other branch one after the
\* other, and then the update_one of the moved item (items.py:306-347)
MoveItemWrite(rid) ==
  \E r \in requests :
    LET same == r.target.id = r.doc.section_id
        found == \E i \in items : i.id = r.doc.id
        cur == CHOOSE i \in items : i.id = r.doc.id
        next_pc == IF r.pc = "shift" /\ ~same THEN "open" ELSE "set"
    IN /\ r.rid = rid /\ r.op = "move_item" /\ r.pc # "done"
       /\ UNCHANGED <<courses, sections, enrollments, grades,
                      completion_state, course_categories,
                      enrollment_methods, counts, evaluation, nextId, users>>
       /\ IF r.pc = "shift"
          THEN /\ items' =
                    IF same
                    THEN SameSectionShift(items, r.doc.section_id,
                                          r.doc.position, r.new_position)
                    ELSE ItemsUpdateManyInc(items,
                           {i \in ItemsOf(items, r.doc.section_id) :
                              i.position > r.doc.position}, -1)
               /\ requests' = Overlapped(rid) \cup {[r EXCEPT !.pc = next_pc]}
               /\ UNCHANGED last
          ELSE IF r.pc = "open"
          THEN /\ items' = ItemsUpdateManyInc(items,
                             {i \in ItemsOf(items, r.target.id) :
                                i.position >= r.new_position}, 1)
               /\ requests' = Overlapped(rid) \cup {[r EXCEPT !.pc = "set"]}
               /\ UNCHANGED last
          ELSE /\ items' = IF found
                           THEN (items \ {cur}) \cup
                                  {[cur EXCEPT
                                      !.section_id = r.target.id,
                                      !.course_id = r.target.course_id,
                                      !.position = r.new_position]}
                           ELSE items
               /\ requests' = Overlapped(rid) \cup {[r EXCEPT !.pc = "done"]}
               /\ last' = Response("move_item", HTTP_200_OK,
                                   IF same THEN "moved_same_section"
                                   ELSE "moved_other_section")

\* duplicate_item up to its write: the find_one calls, the last of them for
\* the largest position of the target section (items.py:225-249)
DuplicateItemRead(rid, u, iid, target_section_id) ==
  LET found == \E i \in items : i.id = iid
      item == CHOOSE i \in items : i.id = iid
      section_id == IF target_section_id # NoId THEN target_section_id
                    ELSE item.section_id
      sfound == \E s \in sections : s.id = section_id
      section == CHOOSE s \in sections : s.id = section_id
      scope == ItemsOf(items, section_id)
      R(code, detail) == Response("duplicate_item", code, detail)
      copying == {q \in Running : q.op = "duplicate_item"}
  IN /\ ~UnderWay(rid)
     /\ nextId + Cardinality(copying) <= MaxId
     /\ UNCHANGED <<courses, sections, items, enrollments, grades,
                    completion_state, course_categories, enrollment_methods,
                    counts, evaluation, nextId, users>>
     /\ IF ~require_roles(u, {"admin", "teacher", "editor"})
        THEN last' = R(HTTP_403_FORBIDDEN, "role") /\ UNCHANGED requests
        ELSE IF ~found
        THEN last' = R(HTTP_404_NOT_FOUND, "item_not_found")
             /\ UNCHANGED requests
        ELSE IF ~sfound
        THEN last' = R(HTTP_404_NOT_FOUND, "section_not_found")
             /\ UNCHANGED requests
        ELSE /\ requests' = Overlapped(rid) \cup
                  {[rid |-> rid, op |-> "duplicate_item", doc |-> item,
                    target |-> section,
                    new_position |-> NextPosition(scope),
                    pc |-> "insert",
                    alone |-> Running = {},
                    regular |-> Dense(scope)]}
             /\ UNCHANGED last

\* The insert_one of the duplicate_item request rid (items.py:251-260)
DuplicateItemInsert(rid) ==
  \E r \in requests :
    /\ r.rid = rid /\ r.op = "duplicate_item" /\ r.pc = "insert"
    /\ items' = items \cup {[r.doc EXCEPT !.id = nextId,
                                          !.section_id = r.target.id,
                                          !.course_id = r.target.course_id,
                                          !.position = r.new_position]}
    /\ nextId' = nextId + 1
    /\ requests' = Overlapped(rid) \cup {[r EXCEPT !.pc = "done"]}
    /\ last' = Response("duplicate_item", HTTP_200_OK, "ok")
    /\ UNCHANGED <<courses, sections, enrollments, grades, completion_state,
                   course_categories, enrollment_methods, counts, evaluation,
                   users>>

\* move_section up to its first write: the access check, the find_one and
\* the early returns (sections.py:233-250)
MoveSectionRead(rid, u, cid, sid, new_position) ==
  LET acc == check_course_access(cid, u, TRUE)
      found == \E s \in sections : s.id = sid /\ s.course_id = cid
      section == CHOOSE s \in sections : s.id = sid /\ s.course_id = cid
      scope == SectionsOf(sections, cid)
      R(code, detail) == Response("move_section", code, detail)
  IN /\ ~UnderWay(rid)
     /\ UNCHANGED <<courses, sections, items, enrollments, grades,
                    completion_state, course_categories, enrollment_methods,
                    counts, evaluation, nextId, users>>
     /\ IF ~require_roles(u, {"admin", "teacher", "editor"})
        THEN last' = R(HTTP_403_FORBIDDEN, "role") /\ UNCHANGED requests
        ELSE IF acc # HTTP_200_OK
        THEN last' = R(acc, AccessDetail(acc)) /\ UNCHANGED requests
        ELSE IF ~found
        THEN last' = R(HTTP_404_NOT_FOUND, "section_not_found")
             /\ UNCHANGED requests
        ELSE IF new_position = section.position
        THEN last' = R(HTTP_200_OK, "no_change") /\ UNCHANGED requests
        ELSE /\ requests' = Overlapped(rid) \cup
                  {[rid |-> rid, op |-> "move_section", doc |-> section,
                    target |-> section, new_position |-> new_position,
                    pc |-> "shift",
                    alone |-> Running = {},
                    regular |-> /\ Dense(scope)
                                /\ 0 <= new_position
                                /\ new_position < Cardinality(scope)]}
             /\ UNCHANGED last

\* The next store write of the move_section request rid: the update_many,
\* then the update_one of the moved section (sections.py:253-272); a write
\* that the unique index refuses ends the request with DuplicateKeyError
MoveSectionWrite(rid) ==
  \E r \in requests :
    LET old_position == r.doc.position
        scope == SectionsOf(sections, r.doc.course_id)
        match == IF r.new_position > old_position
                 THEN {x.id : x \in {y \in scope :
                          y.position > old_position
                          /\ y.position <= r.new_position}}
                 ELSE {x.id : x \in {y \in scope :
                          y.position >= r.new_position
                          /\ y.position < old_position}}
        by == IF r.new_position > old_position THEN -1 ELSE 1
        found == \E s \in sections : s.id = r.doc.id
        cur == CHOOSE s \in sections : s.id = r.doc.id
        moved == [cur EXCEPT !.position = r.new_position]
        refused == Response("move_section", HTTP_500_INTERNAL_SERVER_ERROR,
                            "duplicate_key")
    IN /\ r.rid = rid /\ r.op = "move_section" /\ r.pc # "done"
       /\ UNCHANGED <<courses, items, enrollments, grades, completion_state,
                      course_categories, enrollment_methods, counts,
                      evaluation, nextId, users>>
       /\ IF r.pc = "shift"
          THEN \E sh \in SectionsUpdateManyInc(sections, match, by) :
                 /\ sections' = sh.docs
                 /\ requests' = Overlapped(rid) \cup
                      {[r EXCEPT !.pc = IF sh.ok THEN "set" ELSE "done"]}
                 /\ last' = IF sh.ok THEN last ELSE refused
          ELSE /\ sections' = IF found /\ ~SectionKeyTaken(sections, moved)
                              THEN (sections \ {cur}) \cup {moved}
                              ELSE sections
               /\ requests' = Overlapped(rid) \cup {[r EXCEPT !.pc = "done"]}
               /\ last' = IF found /\ SectionKeyTaken(sections, moved)
                          THEN refused
                          ELSE Response("move_section", HTTP_200_OK, "moved")

----------------------------------------------------------------------------
(* Initial states.  Documents that exist at the start carry the ids        *)
(* MaxId+1, MaxId+2, ...; requests create documents with ids 1..MaxId.     *)

\* A course as create_course stores it: status draft, visible
NewCourse(cid, owner) == Course(cid, DefaultShortname(cid), "cat1", owner)

\* The category that the courses of the initial states belong to
CategoriesAtStart(n) == {[id |-> "cat1", course_count |-> n]}

NoCounts == [enrolled |-> 0, skipped |-> 0]

\* No quiz, question, attempt, assignment or submission is stored
NoEvaluation ==
  /\ quizzes = {}
  /\ questions = {}
  /\ quiz_attempts = {}
  /\ assignments = {}
  /\ submissions = {}

\* n items of a section in the order 0..n-1, as the seeding script and
\* duplicate_item store them
ItemsAtCreate(cid, sid, n, first_id) ==
  {[id |-> first_id + i, section_id |-> sid, course_id |-> cid,
    position |-> i, visible |-> TRUE] : i \in 0 .. (n - 1)}

NoRequest == Response("none", HTTP_200_OK, "ok")

SectionIdArgs == {s.id : s \in sections} \cup {NoId}
ItemIdArgs == {i.id : i \in items} \cup {NoId}

----------------------------------------------------------------------------
(* Sections of two courses under create_section and move_section *)

InitSections ==
  /\ courses = {NewCourse("c1", "teacherA"), NewCourse("c2", "admin")}
  /\ \E n \in 0 .. MaxNumSections :
       sections = SectionsAtCreate("c1", n, MaxId + 1)
                    \cup SectionsAtCreate("c2", 0, MaxId + n + 2)
  /\ items = {}
  /\ enrollments = {}
  /\ grades = {}
  /\ completion_state = {}
  /\ course_categories = CategoriesAtStart(Cardinality(courses))
  /\ enrollment_methods = {}
  /\ counts = NoCounts
  /\ NoEvaluation
  /\ nextId = 1
  /\ last = NoRequest
  /\ users = {}
  /\ requests = {}

\* Caller of the section requests: a role the routes admit
SectionCallers == {"teacherA"}

NextSections ==
  \/ \E u \in SectionCallers, pos \in PosArgs : create_section(u, "c1", pos)
  \/ \E u \in SectionCallers, sid \in SectionIdArgs, new_position \in PosArgs :
       move_section(u, "c1", sid, new_position)

SpecSections == InitSections /\ [][NextSections]_vars

----------------------------------------------------------------------------
(* Items of the two sections of one course under move_item *)

SectionA == MaxId + 1
SectionB == MaxId + 2

InitItems ==
  /\ courses = {NewCourse("c1", "teacherA")}
  /\ sections = SectionsAtCreate("c1", 1, SectionA)
  /\ \E na \in 0 .. MaxItems, nb \in 0 .. MaxItems :
       /\ na + nb <= MaxItems
       /\ items = ItemsAtCreate("c1", SectionA, na, MaxId + 3)
                    \cup ItemsAtCreate("c1", SectionB, nb, MaxId + 3 + na)
  /\ enrollments = {}
  /\ grades = {}
  /\ completion_state = {}
  /\ course_categories = CategoriesAtStart(Cardinality(courses))
  /\ enrollment_methods = {}
  /\ counts = NoCounts
  /\ NoEvaluation
  /\ nextId = 1
  /\ last = NoRequest
  /\ users = {}
  /\ requests = {}

\* Caller of the item requests: a role the route admits
ItemCallers == {"editor"}

NextItems ==
  \E u \in ItemCallers, iid \in ItemIdArgs, sid \in SectionIdArgs,
     new_position \in PosArgs :
    move_item(u, iid, sid, new_position)

SpecItems == InitItems /\ [][NextItems]_vars

----------------------------------------------------------------------------
(* Every mutating section and item request, on an archived course *)

ArchivedCourse(cid, owner) == [NewCourse(cid, owner) EXCEPT !.status = "archived"]

InitLock ==
  /\ courses = {ArchivedCourse("c1", "teacherA")}
  /\ sections = SectionsAtCreate("c1", 1, MaxId + 1)
  /\ items = ItemsAtCreate("c1", MaxId + 1, 1, MaxId + 3)
  /\ enrollments = {}
  /\ grades = {}
  /\ completion_state = {}
  /\ course_categories = CategoriesAtStart(Cardinality(courses))
  /\ enrollment_methods = {}
  /\ counts = NoCounts
  /\ NoEvaluation
  /\ nextId = 1
  /\ last = NoRequest
  /\ users = {}
  /\ requests = {}

LockCallers == {"teacherA", "student"}
LockPatches == {p \in PatchPayloads : p.position \in {0, 1}}

NextLock ==
  \/ \E u \in LockCallers, cid \in CourseIds, pos \in {0, 1} :
       create_section(u, cid, pos)
  \/ \E u \in LockCallers, cid \in CourseIds, sid \in SectionIdArgs,
        patch \in LockPatches :
       update_section(u, cid, sid, patch)
  \/ \E u \in LockCallers, cid \in CourseIds, sid \in SectionIdArgs,
        force \in BOOLEAN :
       delete_section(u, cid, sid, force)
  \/ \E u \in LockCallers, cid \in CourseIds, sid \in SectionIdArgs,
        new_position \in {0, 1} :
       move_section(u, cid, sid, new_position)
  \/ \E u \in LockCallers, sid \in SectionIdArgs, pos \in {0, 1} :
       create_item(u, sid, pos)
  \/ \E u \in LockCallers, iid \in ItemIdArgs, patch \in LockPatches :
       update_item(u, iid, patch)
  \/ \E u \in LockCallers, iid \in ItemIdArgs : delete_item(u, iid)
  \/ \E u \in LockCallers, iid \in ItemIdArgs, sid \in SectionIdArgs,
        new_position \in {0, 1} :
       move_item(u, iid, sid, new_position)
  \/ \E u \in LockCallers, iid \in ItemIdArgs, sid \in SectionIdArgs :
       duplicate_item(u, iid, sid)
  \/ \E u \in LockCallers, iid \in ItemIdArgs, visible \in BOOLEAN :
       toggle_item_visibility(u, iid, visible)

SpecLock == InitLock /\ [][NextLock]_vars

----------------------------------------------------------------------------
(* The course records under update_course, the bulk actions, delete_course *)
(* and enroll_user                                                         *)

InitCourses ==
  /\ courses = {NewCourse("c1", "teacherA"), NewCourse("c2", "admin")}
  /\ sections = SectionsAtCreate("c1", 0, MaxId + 1)
                  \cup SectionsAtCreate("c2", 0, MaxId + 2)
  /\ items = {}
  /\ enrollments = {}
  /\ grades = {}
  /\ completion_state = {}
  /\ course_categories = CategoriesAtStart(Cardinality(courses))
  /\ enrollment_methods = {}
  /\ counts = NoCounts
  /\ NoEvaluation
  /\ nextId = 1
  /\ last = NoRequest
  /\ users = {}
  /\ requests = {}

\* Payloads that set one field
OneFieldCoursePatches == {p \in CoursePatches : Cardinality(p.fields) = 1}

NextCourses ==
  \/ \E u \in Users, patch \in OneFieldCoursePatches :
       update_course(u, "c1", patch)
  \/ \E u \in Users, course_ids \in SUBSET CourseIds, action \in BulkActions :
       bulk_course_action(u, course_ids, action)
  \/ \E u \in Users, cid \in CourseIds : delete_course(u, cid)
  \/ \E u \in {"admin", "student"}, user_id \in {"teacherB", "editor"},
        role \in {"teacher", "editor"} :
       enroll_user(u, "c1", user_id, role)

SpecCourses == InitCourses /\ [][NextCourses]_vars

----------------------------------------------------------------------------
(* Reading a course and its sections, while the course and the student's   *)
(* enrollment change                                                        *)

InitView ==
  /\ courses = {NewCourse("c1", "teacherA")}
  /\ sections = SectionsAtCreate("c1", 0, MaxId + 1)
  /\ items = {}
  /\ enrollments = {}
  /\ grades = {}
  /\ completion_state = {}
  /\ course_categories = CategoriesAtStart(Cardinality(courses))
  /\ enrollment_methods = {}
  /\ counts = NoCounts
  /\ NoEvaluation
  /\ nextId = 1
  /\ last = NoRequest
  /\ users = {}
  /\ requests = {}

ViewCallers == {"student", "editor"}
EnrollmentIdArgs == {e.id : e \in enrollments} \cup {NoId}

NextView ==
  \/ \E u \in ViewCallers, cid \in CourseIds : get_course(u, cid)
  \/ \E u \in ViewCallers, cid \in CourseIds : list_sections(u, cid)
  \/ \E u \in ViewCallers, cid \in CourseIds, sid \in SectionIdArgs :
       get_section(u, cid, sid)
  \/ \E patch \in CoursePatches : update_course("admin", "c1", patch)
  \/ \E role \in EnrollmentRole : enroll_user("admin", "c1", "student", role)
  \/ \E eid \in EnrollmentIdArgs, patch \in EnrollmentPatches :
       update_enrollment("admin", eid, patch)

SpecView == InitView /\ [][NextView]_vars

----------------------------------------------------------------------------
(* Deleting courses that have sections, items, enrollments and grades *)

InitDelete ==
  /\ courses = {NewCourse("c1", "teacherA"), NewCourse("c2", "admin")}
  /\ sections = SectionsAtCreate("c1", 0, MaxId + 1)
                  \cup SectionsAtCreate("c2", 0, MaxId + 2)
  /\ items = ItemsAtCreate("c1", MaxId + 1, 1, MaxId + 3)
                \cup ItemsAtCreate("c2", MaxId + 2, 1, MaxId + 4)
  /\ enrollments = {}
  /\ grades = {}
  /\ completion_state = {}
  /\ course_categories = CategoriesAtStart(Cardinality(courses))
  /\ enrollment_methods = {}
  /\ counts = NoCounts
  /\ NoEvaluation
  /\ nextId = 1
  /\ last = NoRequest
  /\ users = {}
  /\ requests = {}

DeleteCallers == {"admin", "teacherA"}

NextDelete ==
  \/ \E u \in DeleteCallers, cid \in CourseIds : delete_course(u, cid)
  \/ \E u \in DeleteCallers, course_ids \in SUBSET CourseIds,
        action \in {"delete", "archive"} :
       bulk_course_action(u, course_ids, action)
  \/ \E u \in DeleteCallers, item_id \in ItemIdArgs, course_id \in CourseIds,
        grade \in {0, 1} :
       set_grade(u, "student", item_id, course_id, grade)
  \/ \E u \in DeleteCallers, cid \in CourseIds :
       enroll_user(u, cid, "student", "student")

SpecDelete == InitDelete /\ [][NextDelete]_vars

----------------------------------------------------------------------------
(* Properties of the reordering *)

EditorRoles == {"admin", "teacher", "editor"}

\* The documents of after are those of before, in the same relative order
SameOrder(before, after) ==
  /\ {d.id : d \in before} = {d.id : d \in after}
  /\ \A x, y \in before : \A x2, y2 \in after :
       (x2.id = x.id /\ y2.id = y.id)
         => ((x.position < y.position) <=> (x2.position < y2.position))

\* The move of the document id from old to new inside one scope, as the
\* contract describes it: the moved one at new, the siblings between the two
\* positions shifted by one, all others where they were
MovedWithin(before, after, id, old, new) ==
  /\ {d.id : d \in before} = {d.id : d \in after}
  /\ \A b \in before : \A a \in after :
       a.id = b.id =>
         a.position =
           IF b.id = id THEN new
           ELSE IF old < b.position /\ b.position <= new THEN b.position - 1
           ELSE IF new <= b.position /\ b.position < old THEN b.position + 1
           ELSE b.position
  /\ SameOrder({b \in before : b.id # id}, {a \in after : a.id # id})

AllSectionsDense == \A cid \in CourseIds : Dense(SectionsOf(sections, cid))

SectionRequestInRange ==
  \/ \E u \in Users, cid \in CourseIds : create_section(u, cid, 0)
  \/ \E u \in Users, cid \in CourseIds, sid \in SectionIdArgs :
       \E new_position \in 0 .. (Cardinality(SectionsOf(sections, cid)) - 1) :
         move_section(u, cid, sid, new_position)

MoveWithinScope ==
  [][/\ \A u \in Users, cid \in CourseIds, sid \in SectionIdArgs,
          new_position \in PosArgs :
          LET scope == SectionsOf(sections, cid)
          IN (/\ move_section(u, cid, sid, new_position)
              /\ require_roles(u, EditorRoles)
              /\ check_course_access(cid, u, TRUE) = HTTP_200_OK
              /\ \E x \in scope : x.id = sid
              /\ Dense(scope)
              /\ 0 <= new_position /\ new_position < Cardinality(scope))
             => MovedWithin(scope, SectionsOf(sections', cid), sid,
                            (CHOOSE x \in scope : x.id = sid).position,
                            new_position)
     /\ \A u \in Users, iid \in ItemIdArgs, new_position \in PosArgs :
          \A it \in {i \in items : i.id = iid} :
            LET scope == ItemsOf(items, it.section_id)
            IN (/\ move_item(u, iid, it.section_id, new_position)
                /\ require_roles(u, EditorRoles)
                /\ Dense(scope)
                /\ 0 <= new_position /\ new_position < Cardinality(scope))
               => MovedWithin(scope, ItemsOf(items', it.section_id), iid,
                              it.position, new_position)
    ]_vars

\* The item half of the move within a scope (move_item with the item's own
\* section as target), on its own
MoveItemWithinSection ==
  [][\A u \in Users, iid \in ItemIdArgs, new_position \in PosArgs :
       \A it \in {i \in items : i.id = iid} :
         LET scope == ItemsOf(items, it.section_id)
         IN (/\ move_item(u, iid, it.section_id, new_position)
             /\ require_roles(u, EditorRoles)
             /\ Dense(scope)
             /\ 0 <= new_position /\ new_position < Cardinality(scope))
            => MovedWithin(scope, ItemsOf(items', it.section_id), iid,
                           it.position, new_position)
    ]_vars

\* C3 (cross-scope move): an admitted move_item of the item at A:p to another
\* section B at q, with A dense on 0..n-1, B dense on 0..m-1 and 0 <= q <= m,
\* leaves A dense on 0..n-2 and B dense on 0..m, the item at B:q with
\* section_id = B, and the other items of A and of B in their relative order.
CrossScopeMove ==
  [][last'.detail = "moved_other_section" =>
       \A it \in items : \A target \in sections :
         LET A == ItemsOf(items, it.section_id)
             B == ItemsOf(items, target.id)
             A2 == ItemsOf(items', it.section_id)
             B2 == ItemsOf(items', target.id)
         IN (target.id # it.section_id /\ Dense(A) /\ Dense(B)) =>
              \A q \in 0 .. Cardinality(B) :
                (\E u \in ItemCallers : move_item(u, it.id, target.id, q))
                => /\ Dense(A2) /\ Cardinality(A2) = Cardinality(A) - 1
                   /\ Dense(B2) /\ Cardinality(B2) = Cardinality(B) + 1
                   /\ \E x \in B2 : x.id = it.id /\ x.position = q
                   /\ SameOrder(A \ {it}, A2)
                   /\ SameOrder(B, {x \in B2 : x.id # it.id})
    ]_vars

\* C3 witness: a move to the other section has been answered and left three
\* items in dense order in one section
CrossScopeMoveWitness ==
  /\ last.op = "move_item"
  /\ last.detail = "moved_other_section"
  /\ \E sid \in {SectionA, SectionB} :
       Cardinality(ItemsOf(items, sid)) >= 3 /\ Dense(ItemsOf(items, sid))
  /\ Dense(ItemsOf(items, SectionA))
  /\ Dense(ItemsOf(items, SectionB))

----------------------------------------------------------------------------
(* The course catalogue under create_course, update_course (rename) and    *)
(* duplicate_course                                                        *)

\* The ids uuid4 hands out to new courses, besides those of the start
CatalogCourseIds == CourseIds \cup {"c3"}

InitCatalog ==
  /\ \E st \in {"draft", "published"} :
       courses = {[NewCourse("c1", "teacherA") EXCEPT !.status = st]}
  /\ sections = SectionsAtCreate("c1", 0, MaxId + 1)
  /\ \E n \in 0 .. 1 : items = ItemsAtCreate("c1", MaxId + 1, n, MaxId + 2)
  /\ enrollments = {}
  /\ grades = {}
  /\ completion_state = {}
  /\ course_categories = CategoriesAtStart(Cardinality(courses))
  /\ enrollment_methods = {}
  /\ counts = NoCounts
  /\ NoEvaluation
  /\ nextId = 1
  /\ last = NoRequest
  /\ users = {}
  /\ requests = {}

CatalogCallers == {"teacherA", "student"}

NextCatalog ==
  \/ \E u \in CatalogCallers, cid \in CatalogCourseIds, sn \in ShortNames,
        cat \in CategoryIds, n \in -1 .. MaxNumSections :
       create_course(u, cid, sn, cat, n)
  \/ \E u \in CatalogCallers, cid \in CatalogCourseIds,
        patch \in ShortnamePatches :
       update_course(u, cid, patch)
  \/ \E u \in CatalogCallers, cid \in CatalogCourseIds,
        new_cid \in CatalogCourseIds, sn \in ShortNames :
       duplicate_course(u, cid, new_cid, sn)

SpecCatalog == InitCatalog /\ [][NextCatalog]_vars

----------------------------------------------------------------------------
(* Enrollments of two courses under every enrollment request *)

\* User ids of requests: two users and the id of no user
EnrollUserIds == {"student", "editor", "ghost"}

\* The user_ids lists of bulk_enroll, repeats included
BulkLists == UNION {[1 .. n -> EnrollUserIds] : n \in 0 .. MaxBatch}

\* Lists of one or two ids, enough for a repeated id
PairLists == {user_ids \in BulkLists : Len(user_ids) \in 1 .. 2}

EnrollmentCodes == {"K1"}

InitEnroll ==
  /\ courses = {NewCourse("c1", "teacherA"), NewCourse("c2", "admin")}
  /\ sections = SectionsAtCreate("c1", 0, MaxId + 1)
                  \cup SectionsAtCreate("c2", 0, MaxId + 2)
  /\ items = {}
  /\ \E n \in 0 .. 1 :
       enrollments = {[id |-> MaxId + 3, course_id |-> "c1",
                       user_id |-> "student", role |-> "student",
                       status |-> "active"] : i \in 1 .. n}
  /\ grades = {}
  /\ completion_state = {}
  /\ course_categories = CategoriesAtStart(Cardinality(courses))
  /\ enrollment_methods = {}
  /\ counts = NoCounts
  /\ NoEvaluation
  /\ nextId = 1
  /\ last = NoRequest
  /\ users = {}
  /\ requests = {}

EnrollCallers == {"admin", "student"}

\* The EnrollmentUpdate payload of the requests: a suspension
EnrollPatchArgs ==
  {p \in EnrollmentPatches :
     p.fields = {"status"} /\ p.role = "student" /\ p.status = "suspended"}

NextEnroll ==
  \/ \E u \in EnrollCallers, cid \in CourseIds, user_id \in EnrollUserIds :
       enroll_user(u, cid, user_id, "student")
  \/ \E user_ids \in PairLists : bulk_enroll("admin", "c1", user_ids, "student")
  \/ \E cid \in CourseIds, code \in EnrollmentCodes :
       create_enrollment_method("admin", cid, "code", code, "student")
  \/ \E u \in {"student", "editor"}, code \in EnrollmentCodes :
       self_enroll_with_code(u, code)
  \/ \E eid \in EnrollmentIdArgs, patch \in EnrollPatchArgs :
       update_enrollment("admin", eid, patch)
  \/ \E eid \in EnrollmentIdArgs : unenroll_user("admin", eid)

SpecEnroll == InitEnroll /\ [][NextEnroll]_vars

----------------------------------------------------------------------------
(* One course under bulk enrollment of every list *)

InitBulk ==
  /\ courses = {NewCourse("c1", "teacherA")}
  /\ sections = SectionsAtCreate("c1", 0, MaxId + 1)
  /\ items = {}
  /\ \E seeded \in SUBSET {"student"} :
       enrollments = {[id |-> MaxId + 1, course_id |-> "c1",
                       user_id |-> user_id, role |-> "student",
                       status |-> "active"] : user_id \in seeded}
  /\ grades = {}
  /\ completion_state = {}
  /\ course_categories = CategoriesAtStart(Cardinality(courses))
  /\ enrollment_methods = {}
  /\ counts = NoCounts
  /\ NoEvaluation
  /\ nextId = 1
  /\ last = NoRequest
  /\ users = {}
  /\ requests = {}

BulkCallers == {"teacherA", "student"}

NextBulk ==
  \/ \E user_ids \in BulkLists :
       bulk_enroll("teacherA", "c1", user_ids, "student")
  \/ \E u \in BulkCallers, cid \in CourseIds :
       /\ ~(require_roles(u, {"admin", "teacher"}) /\ CourseExists(cid))
       /\ bulk_enroll(u, cid, <<"editor">>, "student")
  \/ \E eid \in EnrollmentIdArgs : unenroll_user("teacherA", eid)

SpecBulk == InitBulk /\ [][NextBulk]_vars

----------------------------------------------------------------------------
(* Two sections and their items under PATCH and under delete_section *)

InitPatch ==
  /\ courses = {NewCourse("c1", "teacherA")}
  /\ sections = SectionsAtCreate("c1", 1, SectionA)
  /\ \E na \in 0 .. 1, nb \in 0 .. 2 :
       /\ na + nb <= MaxItems
       /\ items = ItemsAtCreate("c1", SectionA, na, MaxId + 3)
                    \cup ItemsAtCreate("c1", SectionB, nb, MaxId + 3 + na)
  /\ enrollments = {}
  /\ grades = {}
  /\ completion_state = {}
  /\ course_categories = CategoriesAtStart(Cardinality(courses))
  /\ enrollment_methods = {}
  /\ counts = NoCounts
  /\ NoEvaluation
  /\ nextId = 1
  /\ last = NoRequest
  /\ users = {}
  /\ requests = {}

\* The owner of the course, and a role that may update but not delete
PatchCallers == {"teacherA", "editor"}

\* Payloads that carry a position and nothing else
PositionPatches ==
  {p \in PatchPayloads : p.fields = {"position"} /\ p.visible}

NextPatch ==
  \/ \E u \in PatchCallers, sid \in SectionIdArgs, patch \in PositionPatches :
       update_section(u, "c1", sid, patch)
  \/ \E u \in PatchCallers, iid \in ItemIdArgs, patch \in PositionPatches :
       update_item(u, iid, patch)
  \/ \E u \in PatchCallers, sid \in SectionIdArgs, force \in BOOLEAN :
       delete_section(u, "c1", sid, force)

SpecPatch == InitPatch /\ [][NextPatch]_vars

----------------------------------------------------------------------------
(* One quiz of two questions, of every kind, under submit_quiz_attempt *)

\* points of a question: the default 10, 5, nothing, and a penalty
PointValues == {-5, 0, 5, 10}

\* The options of q1: two options, the first flagged correct or none flagged
OptionLists ==
  {<<[id |-> "a", correct |-> c], [id |-> "b", correct |-> FALSE]>> :
     c \in BOOLEAN}

\* type and correct_answer of q2
SecondQuestionKinds ==
  {[type |-> "true_false", correct_answer |-> PyTrue],
   [type |-> "true_false", correct_answer |-> PyNone],
   [type |-> "short_answer", correct_answer |-> "true"]}

\* The answers dict of a submit request
AnswerArgs ==
  {answers \in [QuestionIds -> {"a", "b", "true", "TRUE", "false", PyNone}] :
     /\ answers["q1"] \in {"a", "b", PyNone}
     /\ answers["q2"] \in {"true", "TRUE", "false", PyNone}}

QuizItem == MaxId + 1

\* A quiz document of course c1 with both questions
Quiz(quiz_id, item_id, limited, max_attempts) ==
  [id |-> quiz_id, course_id |-> "c1", item_id |-> item_id,
   question_ids |-> QuestionIds, limited |-> limited,
   max_attempts |-> max_attempts]

\* An attempt as start_quiz_attempt stores it
NewAttempt(id, quiz_id, user_id, attempt_number) ==
  [id |-> id, quiz_id |-> quiz_id, user_id |-> user_id, course_id |-> "c1",
   attempt_number |-> attempt_number, answers |-> NoAnswers,
   score |-> NoScore, status |-> "in_progress"]

InitQuiz ==
  /\ courses = {NewCourse("c1", "teacherA")}
  /\ sections = SectionsAtCreate("c1", 0, MaxId + 3)
  /\ items = {}
  /\ enrollments = {}
  /\ grades = {}
  /\ completion_state = {}
  /\ course_categories = CategoriesAtStart(Cardinality(courses))
  /\ enrollment_methods = {}
  /\ counts = NoCounts
  /\ quizzes = {Quiz("quiz1", QuizItem, FALSE, 0)}
  /\ \E p1 \in PointValues, p2 \in PointValues, options \in OptionLists,
        kind \in SecondQuestionKinds :
       questions = {[id |-> "q1", type |-> "multiple_choice", points |-> p1,
                     options |-> options, correct_answer |-> PyNone],
                    [id |-> "q2", type |-> kind.type, points |-> p2,
                     options |-> <<>>,
                     correct_answer |-> kind.correct_answer]}
  /\ quiz_attempts = {NewAttempt(MaxId + 2, "quiz1", "student", 1)}
  /\ assignments = {}
  /\ submissions = {}
  /\ nextId = 1
  /\ last = NoRequest
  /\ users = {}
  /\ requests = {}

QuizCallers == {"student", "editor"}
AttemptIdArgs == {a.id : a \in quiz_attempts} \cup {NoId}

NextQuiz ==
  \E u \in QuizCallers, attempt_id \in AttemptIdArgs, answers \in AnswerArgs :
    submit_quiz_attempt(u, attempt_id, answers)

SpecQuiz == InitQuiz /\ [][NextQuiz]_vars

----------------------------------------------------------------------------
(* A limited and an unlimited quiz under start_quiz_attempt *)

\* The two questions of P7
QuestionsOfP7 ==
  {[id |-> "q1", type |-> "multiple_choice", points |-> 10,
    options |-> <<[id |-> "a", correct |-> TRUE],
                  [id |-> "b", correct |-> FALSE]>>,
    correct_answer |-> PyNone],
   [id |-> "q2", type |-> "true_false", points |-> 5, options |-> <<>>,
    correct_answer |-> PyTrue]}

\* The three submissions of P7
AnswersOfP7 ==
  {answers \in AnswerArgs :
     \/ answers["q1"] = "a" /\ answers["q2"] = "true"
     \/ answers["q1"] = "b" /\ answers["q2"] = "false"
     \/ answers["q1"] = "a" /\ answers["q2"] = "false"}

InitAttempts ==
  /\ courses = {NewCourse("c1", "teacherA")}
  /\ sections = SectionsAtCreate("c1", 0, MaxId + 3)
  /\ items = {}
  /\ enrollments = {}
  /\ grades = {}
  /\ completion_state = {}
  /\ course_categories = CategoriesAtStart(Cardinality(courses))
  /\ enrollment_methods = {}
  /\ counts = NoCounts
  /\ \E max_attempts \in 0 .. MaxAttempts :
       quizzes = {Quiz("quiz1", NoId, TRUE, max_attempts),
                  Quiz("quiz2", NoId, FALSE, 0)}
  /\ questions = QuestionsOfP7
  /\ quiz_attempts = {}
  /\ assignments = {}
  /\ submissions = {}
  /\ nextId = 1
  /\ last = NoRequest
  /\ users = {}
  /\ requests = {}

NextAttempts ==
  \/ \E u \in QuizCallers, quiz_id \in {"quiz1", "quiz2", "quiz0"} :
       start_quiz_attempt(u, quiz_id)
  \/ \E u \in QuizCallers, attempt_id \in AttemptIdArgs, answers \in AnswersOfP7 :
       submit_quiz_attempt(u, attempt_id, answers)

SpecAttempts == InitAttempts /\ [][NextAttempts]_vars

----------------------------------------------------------------------------
(* Grades of one item written by set_grade, by a quiz and by an assignment *)

\* grade: None of a submission that has not been graded
NoGrade == [num |-> 0, den |-> 0]

GradeArgs == {Fraction(0, 1), Fraction(70, 1)}

InitGrades ==
  /\ courses = {NewCourse("c1", "teacherA")}
  /\ sections = SectionsAtCreate("c1", 0, MaxId + 5)
  /\ items = {}
  /\ enrollments = {}
  /\ \E n \in 0 .. 1 :
       grades = {[id |-> MaxId + 4, user_id |-> "student",
                  item_id |-> QuizItem, course_id |-> "c1",
                  grade |-> Fraction(50, 1)] : i \in 1 .. n}
  /\ completion_state = {}
  /\ course_categories = CategoriesAtStart(Cardinality(courses))
  /\ enrollment_methods = {}
  /\ counts = NoCounts
  /\ quizzes = {Quiz("quiz1", QuizItem, FALSE, 0)}
  /\ questions = QuestionsOfP7
  /\ quiz_attempts = {NewAttempt(MaxId + 2, "quiz1", "student", 1)}
  /\ assignments = {[id |-> "as1", course_id |-> "c1", item_id |-> QuizItem]}
  /\ submissions = {[id |-> MaxId + 3, assignment_id |-> "as1",
                     user_id |-> "student", course_id |-> "c1",
                     grade |-> NoGrade, status |-> "submitted"]}
  /\ nextId = 1
  /\ last = NoRequest
  /\ users = {}
  /\ requests = {}

GradeCallers == {"teacherA", "student"}
SubmissionIdArgs == {s.id : s \in submissions} \cup {NoId}

NextGrades ==
  \/ \E u \in GradeCallers, user_id \in {"student", "editor"},
        grade \in GradeArgs :
       set_grade(u, user_id, QuizItem, "c1", grade)
  \/ \E u \in GradeCallers, submission_id \in SubmissionIdArgs,
        grade \in GradeArgs :
       grade_submission(u, submission_id, grade)
  \/ start_quiz_attempt("student", "quiz1")
  \/ \E u \in QuizCallers, attempt_id \in AttemptIdArgs, answers \in AnswersOfP7 :
       submit_quiz_attempt(u, attempt_id, answers)

SpecGrades == InitGrades /\ [][NextGrades]_vars

----------------------------------------------------------------------------
(* Properties of the access gate and of the course lifecycle *)

Archived(cid) == CourseExists(cid) /\ CourseOf(cid).status = "archived"
SectionArchived(sid) == \E x \in sections : x.id = sid /\ Archived(x.course_id)
ItemArchived(iid) == \E i \in items : i.id = iid /\ Archived(i.course_id)

\* The step is a mutating request, from a caller whose role the route
\* admits, on a section or item whose owning course is archived
LockedRequest ==
  \/ \E u \in Users, cid \in CourseIds, pos \in PosArgs :
       /\ require_roles(u, EditorRoles) /\ Archived(cid)
       /\ create_section(u, cid, pos)
  \/ \E u \in Users, sid \in SectionIdArgs, patch \in PatchPayloads :
       \E x \in {y \in sections : y.id = sid} :
         /\ require_roles(u, EditorRoles) /\ Archived(x.course_id)
         /\ update_section(u, x.course_id, sid, patch)
  \/ \E u \in Users, sid \in SectionIdArgs, force \in BOOLEAN :
       \E x \in {y \in sections : y.id = sid} :
         /\ require_roles(u, {"admin", "teacher"}) /\ Archived(x.course_id)
         /\ delete_section(u, x.course_id, sid, force)
  \/ \E u \in Users, sid \in SectionIdArgs, new_position \in PosArgs :
       \E x \in {y \in sections : y.id = sid} :
         /\ require_roles(u, EditorRoles) /\ Archived(x.course_id)
         /\ move_section(u, x.course_id, sid, new_position)
  \/ \E u \in Users, sid \in SectionIdArgs, pos \in PosArgs :
       /\ require_roles(u, EditorRoles) /\ SectionArchived(sid)
       /\ create_item(u, sid, pos)
  \/ \E u \in Users, iid \in ItemIdArgs, patch \in PatchPayloads :
       /\ require_roles(u, EditorRoles) /\ ItemArchived(iid)
       /\ update_item(u, iid, patch)
  \/ \E u \in Users, iid \in ItemIdArgs :
       /\ require_roles(u, EditorRoles) /\ ItemArchived(iid)
       /\ delete_item(u, iid)
  \/ \E u \in Users, iid \in ItemIdArgs, sid \in SectionIdArgs,
        new_position \in PosArgs :
       /\ require_roles(u, EditorRoles) /\ ItemArchived(iid)
       /\ sid # NoId
       /\ move_item(u, iid, sid, new_position)
  \/ \E u \in Users, iid \in ItemIdArgs, sid \in SectionIdArgs :
       /\ require_roles(u, EditorRoles) /\ ItemArchived(iid)
       /\ duplicate_item(u, iid, sid)
  \/ \E u \in Users, iid \in ItemIdArgs, visible \in BOOLEAN :
       /\ require_roles(u, EditorRoles) /\ ItemArchived(iid)
       /\ toggle_item_visibility(u, iid, visible)

\* C4 (P4 archived lock), for the callers the routes admit: every mutating
\* request on a section or item whose owning course is archived is rejected
\* with the state-conflict error and leaves sections and items unchanged.
ArchivedLock ==
  [][LockedRequest =>
       /\ last'.code = HTTP_400_BAD_REQUEST
       /\ last'.detail = "archived"
       /\ UNCHANGED <<sections, items>>]_vars

\* C5: once a course's status is archived, no request changes its status or
\* any other field of its record; a step leaves the record as it is or
\* deletes it.
ArchivedIsReadOnly ==
  [][\A c \in courses :
       c.status = "archived" =>
         (c \in courses' \/ ~\E d \in courses' : d.id = c.id)]_vars

LifecycleTransitions ==
  {<<"draft", "published">>, <<"published", "suspended">>,
   <<"suspended", "published">>, <<"published", "archived">>,
   <<"suspended", "archived">>}

\* C6: every change of a course's status made by a request is one of
\* draft->published, published->suspended, suspended->published,
\* published->archived, suspended->archived.
CourseLifecycle ==
  [][\A c \in courses : \A d \in courses' :
       (d.id = c.id /\ d.status # c.status)
         => <<c.status, d.status>> \in LifecycleTransitions]_vars

EnrolledAs(u, cid, role) ==
  \E e \in enrollments : e.course_id = cid /\ e.user_id = u /\ e.role = role

\* A teacher who neither created the course nor is enrolled in it as teacher
OutsideTeacher(u, cid) ==
  /\ RoleOf(u) = "teacher"
  /\ CourseExists(cid)
  /\ CourseOf(cid).created_by # u
  /\ ~EnrolledAs(u, cid, "teacher")

\* C7 (P5 teacher gate): a teacher who is not created_by and has no
\* enrollment with role=teacher is denied (Forbidden) update_course and the
\* hide/show/suspend/archive bulk actions on the course, with the course
\* records unchanged; once enrolled with role=teacher the teacher's
\* update_course of a course that is not archived succeeds.
TeacherGate ==
  [][\A u \in Users :
       /\ \A cid \in CourseIds, patch \in CoursePatches :
            (/\ OutsideTeacher(u, cid) /\ ~Archived(cid)
             /\ update_course(u, cid, patch))
            => (last'.code = HTTP_403_FORBIDDEN /\ UNCHANGED courses)
       /\ \A course_ids \in SUBSET CourseIds,
            action \in {"hide", "show", "suspend", "archive"} :
            (/\ \E cid \in course_ids : OutsideTeacher(u, cid)
             /\ bulk_course_action(u, course_ids, action))
            => (last'.code = HTTP_403_FORBIDDEN /\ UNCHANGED courses)
       /\ \A cid \in CourseIds, patch \in CoursePatches :
            (/\ RoleOf(u) = "teacher" /\ EnrolledAs(u, cid, "teacher")
             /\ CourseExists(cid) /\ ~Archived(cid)
             /\ update_course(u, cid, patch))
            => last'.code = HTTP_200_OK
    ]_vars

\* C8: an editor who is not enrolled in the course with role=editor, and
\* every student, is denied update_course, and the course is unchanged.
EditorGate ==
  [][\A u \in Users, cid \in CourseIds, patch \in CoursePatches :
       (/\ CourseExists(cid) /\ ~Archived(cid)
        /\ \/ RoleOf(u) = "student"
           \/ RoleOf(u) = "editor" /\ ~EnrolledAs(u, cid, "editor")
        /\ update_course(u, cid, patch))
       => (last'.code = HTTP_403_FORBIDDEN /\ UNCHANGED courses)
    ]_vars

\* The student view rule of the capability matrix
ViewAllowed(u, cid) ==
  \/ CourseOf(cid).status = "published" /\ CourseOf(cid).visible
  \/ \E e \in enrollments :
       e.course_id = cid /\ e.user_id = u /\ e.status = "active"

\* C9 (student view gate): for a student and an existing course, get_course,
\* list_sections and get_section allow the view iff the course is published
\* and visible or the student has an active enrollment in it, and the
\* decisions of get_course and check_course_access agree in every state.
StudentViewGate ==
  /\ [](\A u \in Users, cid \in CourseIds :
          (RoleOf(u) = "student" /\ CourseExists(cid)) =>
            /\ get_course_status(u, cid) = HTTP_200_OK <=> ViewAllowed(u, cid)
            /\ get_course_status(u, cid) = check_course_access(cid, u, FALSE))
  /\ [][\A u \in Users, cid \in CourseIds :
          (RoleOf(u) = "student" /\ CourseExists(cid)) =>
            /\ get_course(u, cid) =>
                 (last'.code = HTTP_200_OK <=> ViewAllowed(u, cid))
            /\ list_sections(u, cid) =>
                 (last'.code = HTTP_200_OK <=> ViewAllowed(u, cid))
            /\ \A sid \in SectionIdArgs :
                 get_section(u, cid, sid) =>
                   (last'.code # HTTP_403_FORBIDDEN <=> ViewAllowed(u, cid))
       ]_vars

\* C9 witness: a student holding an enrollment that is not active has been
\* refused a course that is not both published and visible
StudentViewWitness ==
  /\ last.op \in {"get_course", "list_sections", "get_section"}
  /\ last.code = HTTP_403_FORBIDDEN
  /\ \E e \in enrollments :
       e.course_id = "c1" /\ e.user_id = "student" /\ e.status # "active"

\* C10: after a course is deleted through delete_course or the bulk delete,
\* no section, item, enrollment, grade or completion-state record with that
\* course_id remains.
DeletionCascades ==
  [][\A c \in courses :
       (~\E d \in courses' : d.id = c.id) =>
         /\ ~\E x \in sections' : x.course_id = c.id
         /\ ~\E x \in items' : x.course_id = c.id
         /\ ~\E x \in enrollments' : x.course_id = c.id
         /\ ~\E x \in grades' : x.course_id = c.id
         /\ ~\E x \in completion_state' : x.course_id = c.id]_vars

----------------------------------------------------------------------------
(* Properties of the catalogue, of enrollments and of evaluation *)

\* The step is a create, rename or duplicate request from an admitted caller
\* that asks for a shortname another course holds
ShortnameConflictRequest ==
  \/ \E u \in CatalogCallers, cid \in CatalogCourseIds, sn \in ShortNames,
        cat \in CategoryIds, n \in -1 .. MaxNumSections :
       /\ last'.op = "create_course"
       /\ require_roles(u, {"admin", "teacher"})
       /\ \E c \in courses : c.shortname = sn
       /\ FreshCourseId(cid)
       /\ create_course(u, cid, sn, cat, n)
  \/ \E u \in CatalogCallers, cid \in CatalogCourseIds, patch \in ShortnamePatches :
       /\ last'.op = "update_course"
       /\ require_roles(u, {"admin", "teacher", "editor"})
       /\ CourseExists(cid) /\ ~Archived(cid) /\ ~OutsideTeacher(u, cid)
       /\ \E c \in courses : c.id # cid /\ c.shortname = patch.shortname
       /\ update_course(u, cid, patch)
  \/ \E u \in CatalogCallers, cid \in CatalogCourseIds, new_cid \in CatalogCourseIds,
        sn \in ShortNames :
       /\ last'.op = "duplicate_course"
       /\ require_roles(u, {"admin", "teacher"})
       /\ CourseExists(cid)
       /\ \E c \in courses : c.shortname = sn
       /\ FreshCourseId(new_cid)
       /\ duplicate_course(u, cid, new_cid, sn)

ShortnamesDistinct ==
  \A c \in courses, d \in courses : c.shortname = d.shortname => c.id = d.id

\* C11 (shortname uniqueness): in every state reached through create_course,
\* update_course and duplicate_course no two courses share a shortname, and
\* a request that asks for a shortname another course holds is answered with
\* the conflict error and changes no course, section, item or category.
ShortnameUniqueness ==
  /\ []ShortnamesDistinct
  /\ [][ShortnameConflictRequest =>
         /\ last'.code = HTTP_400_BAD_REQUEST
         /\ last'.detail = "shortname_taken"
         /\ UNCHANGED <<courses, sections, items, course_categories>>]_vars

\* C11 witness: three courses exist and a request for a held shortname has
\* just been refused
ShortnameUniquenessWitness ==
  /\ Cardinality(courses) = 3
  /\ last.detail = "shortname_taken"
  /\ last.op \in {"update_course", "duplicate_course"}

\* The step is an enroll_user or self_enroll_with_code request that the
\* handler admits, for a user who holds an enrollment in the course (for
\* self-enrollment: in the course of every method the code matches)
EnrollAgainRequest ==
  \/ /\ last'.op = "enroll_user"
     /\ \E u \in EnrollCallers, cid \in CourseIds, user_id \in EnrollUserIds,
           role \in EnrollmentRole :
          /\ require_roles(u, {"admin", "teacher"})
          /\ CourseExists(cid) /\ user_id \in Users
          /\ \E e \in enrollments : e.course_id = cid /\ e.user_id = user_id
          /\ enroll_user(u, cid, user_id, role)
  \/ /\ last'.op = "self_enroll_with_code"
     /\ \E u \in Users, code \in EnrollmentCodes :
          /\ \E m \in enrollment_methods : m.code = code /\ m.enabled
          /\ \A m \in enrollment_methods :
               (m.code = code /\ m.enabled) =>
                 \E e \in enrollments : /\ e.course_id = m.course_id
                                         /\ e.user_id = u
          /\ self_enroll_with_code(u, code)

EnrollmentPairsDistinct ==
  \A e \in enrollments, f \in enrollments :
    (e.course_id = f.course_id /\ e.user_id = f.user_id) => e = f

\* C12 (enrollment uniqueness): in every state reached through enroll_user,
\* bulk_enroll, self_enroll_with_code, update_enrollment and unenroll_user
\* there is at most one enrollment per (course_id, user_id), and enrolling
\* an already enrolled user through enroll_user or self_enroll_with_code is
\* answered with the conflict error and leaves enrollments unchanged.
EnrollmentUniqueness ==
  /\ []EnrollmentPairsDistinct
  /\ [][EnrollAgainRequest =>
         /\ last'.code = HTTP_400_BAD_REQUEST
         /\ last'.detail = "already_enrolled"
         /\ UNCHANGED enrollments]_vars

\* C12 witness: a self-enrollment of an enrolled user has been refused while
\* two enrollments exist, one of them no longer active
EnrollmentUniquenessWitness ==
  /\ last.op = "self_enroll_with_code"
  /\ last.detail = "already_enrolled"
  /\ Cardinality(enrollments) >= 2
  /\ \E e \in enrollments : e.status # "active"

\* C13 (bulk enroll partial success): bulk_enroll by an admitted caller on an
\* existing course succeeds for every list; enrolled + skipped is the length
\* of the list; enrolled is the number of enrollments added, one for each
\* distinct existing user of the list not enrolled before; skipped counts the
\* list entries that name no user or a user enrolled by then; the
\* enrollments that existed before are unchanged.
BulkEnrollPartialSuccess ==
  [][last'.op = "bulk_enroll" =>
       \A u \in BulkCallers, cid \in CourseIds :
         (require_roles(u, {"admin", "teacher"}) /\ CourseExists(cid)) =>
           \A user_ids \in BulkLists :
             bulk_enroll(u, cid, user_ids, "student") =>
               LET listed == {user_ids[i] : i \in 1 .. Len(user_ids)}
                   before == {e.user_id : e \in {x \in enrollments :
                                                   x.course_id = cid}}
                   added == enrollments' \ enrollments
               IN /\ last'.code = HTTP_200_OK
                  /\ counts'.enrolled + counts'.skipped = Len(user_ids)
                  /\ counts'.enrolled = Cardinality(added)
                  /\ enrollments \subseteq enrollments'
                  /\ \A e \in added : e.course_id = cid
                  /\ {e.user_id : e \in added} = (listed \cap Users) \ before
                  /\ Cardinality(added) =
                       Cardinality((listed \cap Users) \ before)
                  /\ counts'.skipped =
                       Cardinality({i \in 1 .. Len(user_ids) :
                                      \/ user_ids[i] \notin Users
                                      \/ user_ids[i] \in before
                                      \/ \E j \in 1 .. (i - 1) :
                                           user_ids[j] = user_ids[i]})
    ]_vars

\* C13 witness: a list of three ids, one of no user and one of an enrolled
\* user, has been answered with enrolled = 1 and skipped = 2
BulkEnrollWitness ==
  /\ last.op = "bulk_enroll"
  /\ last.code = HTTP_200_OK
  /\ counts = [enrolled |-> 1, skipped |-> 2]
  /\ Cardinality(enrollments) >= 2

\* C17 (section delete guard): delete_section by an admitted caller on a
\* section of a course that is not archived is refused with the conflict
\* error, sections and items unchanged, when the section has an item and
\* force is not set; otherwise it removes that section and exactly the items
\* whose section_id is that section.
SectionDeleteGuard ==
  [][last'.op = "delete_section" =>
       \A x \in sections : \A force \in BOOLEAN :
         (\E u \in PatchCallers :
            /\ require_roles(u, {"admin", "teacher"})
            /\ ~Archived(x.course_id)
            /\ delete_section(u, x.course_id, x.id, force))
         => IF ItemsOf(items, x.id) # {} /\ ~force
            THEN /\ last'.code = HTTP_400_BAD_REQUEST
                 /\ UNCHANGED <<sections, items>>
            ELSE /\ last'.code = HTTP_200_OK
                 /\ sections' = sections \ {x}
                 /\ items' = {i \in items : i.section_id # x.id}
    ]_vars

\* C17 witness: a forced delete has removed a section together with its
\* items while the items of the other section are still there
SectionDeleteGuardWitness ==
  /\ last.op = "delete_section" /\ last.code = HTTP_200_OK
  /\ Cardinality(sections) = 1
  /\ \A s \in sections : s.id = SectionA
  /\ items # {}
  /\ \A i \in items : i.section_id = SectionA

AllItemsDense == \A s \in sections : Dense(ItemsOf(items, s.id))

\* C19 as stated (I1 kept by PATCH): an update_section or update_item request
\* on a course whose section positions and item positions are dense leaves
\* them dense, 0..N-1 without duplicates.
PatchKeepsDense ==
  [][last'.op \in {"update_section", "update_item"} =>
       ((AllSectionsDense /\ AllItemsDense)
          => (AllSectionsDense' /\ AllItemsDense'))]_vars

\* C20 (course creation builds the initial sections): a create_course request
\* of an admitted caller with num_sections = n >= 0 is rejected, creating no
\* course and no section, when the shortname is taken or the category is
\* unknown; otherwise it adds the course and exactly n+1 sections of it, at
\* positions 0..n each used once, the one at position 0 being the
\* introduction section.
CreateBuildsSections ==
  [][last'.op = "create_course" =>
       \A cid \in CatalogCourseIds : FreshCourseId(cid) =>
         \A sn \in ShortNames, cat \in CategoryIds, n \in 0 .. MaxNumSections :
           (\E u \in CatalogCallers : /\ require_roles(u, {"admin", "teacher"})
                                       /\ create_course(u, cid, sn, cat, n))
           => IF ShortnameTaken(sn) \/ cat \notin {c.id : c \in course_categories}
              THEN /\ last'.code = HTTP_400_BAD_REQUEST
                   /\ UNCHANGED <<courses, sections>>
              ELSE LET made == sections' \ sections
                   IN /\ last'.code = HTTP_200_OK
                      /\ {c.id : c \in courses'} = {c.id : c \in courses} \cup {cid}
                      /\ sections \subseteq sections'
                      /\ Cardinality(made) = n + 1
                      /\ \A s \in made : s.course_id = cid
                      /\ {s.position : s \in made} = 0 .. n
                      /\ \A s \in made :
                           (s.title = "Introduccion") <=> (s.position = 0)
    ]_vars

\* C20 witness: create_course with num_sections = 1 has made a second course
\* with its introduction section and one more section
CreateBuildsSectionsWitness ==
  /\ last.op = "create_course" /\ last.code = HTTP_200_OK
  /\ \E c \in courses :
       /\ c.id # "c1"
       /\ {s.position : s \in SectionsOf(sections, c.id)} = {0, 1}
       /\ Cardinality(SectionsOf(sections, c.id)) = 2

\* The question counts as correctly answered: a multiple_choice question when
\* the answer is the id of the option flagged correct, a true_false question
\* when the answer and the stored correct answer, both as strings, are equal
\* ignoring case
AnsweredCorrectly(q, answer) ==
  \/ /\ q.type = "multiple_choice"
     /\ \E i \in DOMAIN q.options : /\ q.options[i].correct
                                      /\ q.options[i].id = answer
  \/ /\ q.type = "true_false"
     /\ lower(str(answer)) = lower(str(q.correct_answer))

\* score, in hundredths, is a nearest hundredth of earned / total x 100
NearestHundredth(score, earned, total) ==
  LET d == score * total - earned * 10000
  IN 2 * (IF d < 0 THEN -d ELSE d) <= (IF total < 0 THEN -total ELSE total)

\* The quiz of P7: 10 points multiple_choice with correct option "a",
\* 5 points true_false with correct answer True
QuizOfP7 ==
  /\ \E q \in questions : /\ q.id = "q1" /\ q.points = 10
                           /\ q.options[1].correct
  /\ \E q \in questions : /\ q.id = "q2" /\ q.points = 5
                           /\ q.type = "true_false"
                           /\ q.correct_answer = PyTrue

ScoresOfP7 ==
  QuizOfP7 =>
    \A a \in quiz_attempts :
      a.status = "completed" =>
        /\ (a.answers["q1"] = "a" /\ a.answers["q2"] = "true")
             => a.score = 10000
        /\ (a.answers["q1"] = "b" /\ a.answers["q2"] = "false")
             => a.score = 0
        /\ (a.answers["q1"] = "a" /\ a.answers["q2"] = "false")
             => a.score = 6667

AttemptSubmittedOnce ==
  [][/\ \A a \in quiz_attempts :
         a.status # "in_progress" => a \in quiz_attempts'
     /\ \A a \in quiz_attempts : \A b \in quiz_attempts' :
         (a.id = b.id /\ a.status # b.status) =>
           /\ a.status = "in_progress" /\ b.status = "completed"
           /\ last'.op = "submit_quiz_attempt" /\ last'.code = HTTP_200_OK
     /\ (last'.op = "submit_quiz_attempt" /\ last'.code = HTTP_200_OK) =>
         \E a \in quiz_attempts : /\ a.status = "in_progress"
                                   /\ \E b \in quiz_attempts' :
                                        b.id = a.id /\ b.status = "completed"
     /\ last'.op = "submit_quiz_attempt" =>
         \A a \in quiz_attempts :
           (/\ a.status # "in_progress"
            /\ \E answers \in AnswerArgs :
                 submit_quiz_attempt(a.user_id, a.id, answers))
           => /\ last'.code = HTTP_400_BAD_REQUEST
              /\ UNCHANGED <<quiz_attempts, grades>>
    ]_vars

\* C15 witness: a second submit of a completed, graded attempt has been
\* rejected
AttemptSubmittedOnceWitness ==
  /\ last.op = "submit_quiz_attempt" /\ last.detail = "already_sent"
  /\ \E a \in quiz_attempts : a.status = "completed"
  /\ grades # {}

AttemptsOf(attempts, user_id, quiz_id) ==
  {a \in attempts : a.user_id = user_id /\ a.quiz_id = quiz_id}

\* The attempt_number values of each user on each quiz are 1..k, each once
AttemptNumbersDense ==
  \A quiz \in quizzes : \A u \in Users :
    LET mine == AttemptsOf(quiz_attempts, u, quiz.id)
    IN /\ {a.attempt_number : a \in mine} = 1 .. Cardinality(mine)
       /\ \A a \in mine, b \in mine :
            a.attempt_number = b.attempt_number => a = b

\* C16 as stated (max attempts): for a quiz with a configured max_attempts
\* the attempts of one user never exceed it, a start that would exceed it is
\* rejected without a record, and the attempt numbers are 1..k.
MaxAttemptsConfigured ==
  /\ [](\A quiz \in quizzes : \A u \in Users :
          quiz.limited =>
            Cardinality(AttemptsOf(quiz_attempts, u, quiz.id))
              <= quiz.max_attempts)
  /\ [][last'.op = "start_quiz_attempt" =>
         \A quiz \in quizzes : \A u \in QuizCallers :
           (/\ quiz.limited
            /\ Cardinality(AttemptsOf(quiz_attempts, u, quiz.id))
                 >= quiz.max_attempts
            /\ start_quiz_attempt(u, quiz.id))
           => /\ last'.code = HTTP_400_BAD_REQUEST
              /\ UNCHANGED quiz_attempts]_vars
  /\ []AttemptNumbersDense

\* C16 (max attempts), amended: for a quiz whose configured max_attempts is
\* at least 1 the attempts of one user never exceed it and a start that
\* would exceed it is rejected without a record; the attempt numbers of a
\* user on any quiz are 1..k without repeats.
MaxAttemptsPositive ==
  /\ [](\A quiz \in quizzes : \A u \in Users :
          (quiz.limited /\ quiz.max_attempts >= 1) =>
            Cardinality(AttemptsOf(quiz_attempts, u, quiz.id))
              <= quiz.max_attempts)
  /\ [][last'.op = "start_quiz_attempt" =>
         \A quiz \in quizzes : \A u \in QuizCallers :
           (/\ quiz.limited /\ quiz.max_attempts >= 1
            /\ Cardinality(AttemptsOf(quiz_attempts, u, quiz.id))
                 >= quiz.max_attempts
            /\ start_quiz_attempt(u, quiz.id))
           => /\ last'.code = HTTP_400_BAD_REQUEST
              /\ UNCHANGED quiz_attempts]_vars
  /\ []AttemptNumbersDense

\* C16 witness: a user who holds both attempts of a quiz limited to two has
\* been refused a third
MaxAttemptsWitness ==
  /\ last.op = "start_quiz_attempt" /\ last.detail = "max_attempts"
  /\ \E quiz \in quizzes : \E u \in QuizCallers :
       /\ quiz.limited /\ quiz.max_attempts = 2
       /\ Cardinality(AttemptsOf(quiz_attempts, u, quiz.id)) = 2

SameGradeKey(g, user_id, item_id, course_id) ==
  g.user_id = user_id /\ g.item_id = item_id /\ g.course_id = course_id

GradeKeysDistinct ==
  \A g \in grades, h \in grades :
    SameGradeKey(g, h.user_id, h.item_id, h.course_id) => g = h

\* After the step the key holds the grade written, and the grades of the
\* other keys are the ones they were
GradeWritten(user_id, item_id, course_id, grade) ==
  /\ \E g \in grades' : /\ SameGradeKey(g, user_id, item_id, course_id)
                         /\ g.grade = grade
  /\ \A g \in grades : \/ SameGradeKey(g, user_id, item_id, course_id)
                        \/ g \in grades'

\* C18 (grade key uniqueness): in every state reached through set_grade,
\* submit_quiz_attempt and grade_submission there is at most one grade per
\* (user_id, item_id, course_id), and after each of these requests the key
\* it wrote holds the grade it wrote.
GradeKeyUniqueness ==
  /\ []GradeKeysDistinct
  /\ [][/\ last'.op = "set_grade" =>
            \A u \in GradeCallers, user_id \in Users, grade \in GradeArgs :
              (/\ require_roles(u, {"admin", "teacher"})
               /\ set_grade(u, user_id, QuizItem, "c1", grade))
              => GradeWritten(user_id, QuizItem, "c1", grade)
        /\ last'.op = "grade_submission" =>
            \A s \in submissions, a \in assignments, grade \in GradeArgs :
              (/\ a.id = s.assignment_id /\ a.item_id # NoId
               /\ \E u \in GradeCallers :
                    /\ require_roles(u, {"admin", "teacher"})
                    /\ grade_submission(u, s.id, grade))
              => GradeWritten(s.user_id, a.item_id, s.course_id, grade)
        /\ last'.op = "submit_quiz_attempt" =>
            \A a \in quiz_attempts, quiz \in quizzes, answers \in AnswersOfP7 :
              (/\ quiz.id = a.quiz_id /\ quiz.item_id # NoId
               /\ a.status = "in_progress"
               /\ submit_quiz_attempt(a.user_id, a.id, answers))
              => GradeWritten(a.user_id, quiz.item_id, quiz.course_id,
                              Score(EarnedPoints(QuizQuestions(quiz), answers),
                                    SumPoints(QuizQuestions(quiz))))
       ]_vars

\* C18 witness: the key that a quiz submission wrote and set_grade wrote
\* again holds, alone, the grade that grade_submission wrote last
GradeKeyUniquenessWitness ==
  /\ last.op = "grade_submission" /\ last.code = HTTP_200_OK
  /\ \E a \in quiz_attempts : a.status = "completed"
  /\ \E s \in submissions : s.status = "graded" /\ s.grade = Fraction(70, 1)
  /\ grades # {}
  /\ \A g \in grades : /\ SameGradeKey(g, "student", QuizItem, "c1")
                        /\ g.grade = Fraction(70, 1)

----------------------------------------------------------------------------
(* Two courses, their sections and items under the inserts                 *)
(* (create_section, create_item, duplicate_item) and the deletes           *)

InitInsert ==
  /\ courses = {NewCourse("c1", "teacherA"), NewCourse("c2", "admin")}
  /\ sections = SectionsAtCreate("c1", 1, SectionA)
                  \cup SectionsAtCreate("c2", 0, MaxId + 6)
  /\ \E na \in 0 .. 2, nb \in 0 .. 1 :
       /\ na + nb <= MaxItems
       /\ items = ItemsAtCreate("c1", SectionA, na, MaxId + 3)
                    \cup ItemsAtCreate("c1", SectionB, nb, MaxId + 3 + na)
                    \cup ItemsAtCreate("c2", MaxId + 6, 1, MaxId + 7)
  /\ enrollments = {}
  /\ grades = {}
  /\ completion_state = {}
  /\ course_categories = CategoriesAtStart(Cardinality(courses))
  /\ enrollment_methods = {}
  /\ counts = NoCounts
  /\ NoEvaluation
  /\ nextId = 1
  /\ last = NoRequest
  /\ users = {}
  /\ requests = {}

\* The owner of the course, for the section and item requests
InsertCallers == {"teacherA"}

NextInsert ==
  \/ \E u \in InsertCallers, pos \in PosArgs : create_section(u, "c1", pos)
  \/ \E u \in InsertCallers, sid \in SectionIdArgs, pos \in PosArgs :
       create_item(u, sid, pos)
  \/ \E u \in InsertCallers, iid \in ItemIdArgs, sid \in SectionIdArgs :
       duplicate_item(u, iid, sid)
  \/ \E u \in InsertCallers, iid \in ItemIdArgs : delete_item(u, iid)
  \/ \E u \in InsertCallers, sid \in SectionIdArgs, force \in BOOLEAN :
       delete_section(u, "c1", sid, force)
  \/ \E cid \in CourseIds : delete_course("admin", cid)
  \/ bulk_course_action("admin", {"c1"}, "delete")

SpecInsert == InitInsert /\ [][NextInsert]_vars

----------------------------------------------------------------------------
(* Properties of the inserts and of the deletes *)

\* The documents of after are those of before and one more, the new one at
\* position, and no document of before has changed
Inserted(before, after, position) ==
  /\ before \subseteq after
  /\ \E d \in after \ before : d.position = position /\ after = before \cup {d}

\* The duplicate_item third of the insert without a position, on its own: an
\* admitted duplicate_item stores the copy at the end of the target section
DuplicateAppends ==
  [][\A u \in Users, iid \in ItemIdArgs, sid \in SectionIdArgs :
       \A it \in {i \in items : i.id = iid} :
         LET section_id == IF sid # NoId THEN sid ELSE it.section_id
             scope == ItemsOf(items, section_id)
         IN (/\ duplicate_item(u, iid, sid)
             /\ require_roles(u, EditorRoles)
             /\ \E s \in sections : s.id = section_id)
            => /\ Inserted(scope, ItemsOf(items', section_id),
                           NextPosition(scope))
               /\ \A i \in items : i \in items'
    ]_vars

\* C21 as stated (insert without a position appends): an admitted
\* create_section, create_item or duplicate_item request that carries no
\* position stores the new entity at the largest position of the scope plus
\* one, at 0 in an empty scope, and changes no sibling.
InsertAppends ==
  [][/\ \A u \in Users, cid \in CourseIds :
          LET scope == SectionsOf(sections, cid)
          IN (/\ create_section(u, cid, 0)
              /\ require_roles(u, EditorRoles)
              /\ check_course_access(cid, u, TRUE) = HTTP_200_OK)
             => Inserted(scope, SectionsOf(sections', cid),
                         NextPosition(scope))
     /\ \A u \in Users, sid \in SectionIdArgs :
          LET scope == ItemsOf(items, sid)
          IN (/\ create_item(u, sid, 0)
              /\ require_roles(u, EditorRoles)
              /\ check_section_access(sid, TRUE) = HTTP_200_OK)
             => Inserted(scope, ItemsOf(items', sid), NextPosition(scope))
     /\ \A u \in Users, iid \in ItemIdArgs, sid \in SectionIdArgs :
          \A it \in {i \in items : i.id = iid} :
            LET section_id == IF sid # NoId THEN sid ELSE it.section_id
                scope == ItemsOf(items, section_id)
            IN (/\ duplicate_item(u, iid, sid)
                /\ require_roles(u, EditorRoles)
                /\ \E s \in sections : s.id = section_id)
               => Inserted(scope, ItemsOf(items', section_id),
                           NextPosition(scope))
    ]_vars

\* C22 as stated (insert with an explicit position): an admitted
\* create_section or create_item request with the explicit position p, p = 0
\* on a non-empty scope included, stores the new entity at position p and
\* renumbers no sibling.
InsertStoresPosition ==
  [][/\ \A u \in Users, cid \in CourseIds, p \in PosArgs :
          LET scope == SectionsOf(sections, cid)
          IN (/\ create_section(u, cid, p)
              /\ require_roles(u, EditorRoles)
              /\ check_course_access(cid, u, TRUE) = HTTP_200_OK)
             => Inserted(scope, SectionsOf(sections', cid), p)
     /\ \A u \in Users, sid \in SectionIdArgs, p \in PosArgs :
          LET scope == ItemsOf(items, sid)
          IN (/\ create_item(u, sid, p)
              /\ require_roles(u, EditorRoles)
              /\ check_section_access(sid, TRUE) = HTTP_200_OK)
             => Inserted(scope, ItemsOf(items', sid), p)
    ]_vars

\* C23 as stated (reordering respects the unique index): on a course with
\* dense positions, every write of an admitted move_section to a different
\* position in range passes the unique index on (course_id, position), so the
\* move completes with the section at new_position, and no two sections of a
\* course ever share a position.
MoveCompletes ==
  [][\A u \in Users, cid \in CourseIds, sid \in SectionIdArgs,
        new_position \in PosArgs :
       LET scope == SectionsOf(sections, cid)
       IN (/\ move_section(u, cid, sid, new_position)
           /\ require_roles(u, EditorRoles)
           /\ check_course_access(cid, u, TRUE) = HTTP_200_OK
           /\ \E x \in scope : x.id = sid /\ x.position # new_position
           /\ Dense(scope)
           /\ 0 <= new_position /\ new_position < Cardinality(scope))
          => /\ last'.code = HTTP_200_OK
             /\ \E x \in sections' : x.id = sid /\ x.position = new_position
             /\ \A a, b \in SectionsOf(sections', cid) :
                  a.position = b.position => a = b
    ]_vars

\* C24 (delete does not renumber): delete_item, delete_section, forced or
\* not, and the deletion of a course, single or bulk, leave every remaining
\* section and item as it was, position included; the delete of an item that
\* is not the last of its dense section leaves its position empty.
DeleteKeepsPositions ==
  [][last'.op \in {"delete_item", "delete_section", "delete_course",
                   "bulk_course_action"} =>
       /\ \A s \in sections' : s \in sections
       /\ \A i \in items' : i \in items
       /\ \A it \in items \ items' :
            LET scope == ItemsOf(items, it.section_id)
                rest == ItemsOf(items', it.section_id)
            IN (/\ last'.op = "delete_item"
                /\ Dense(scope)
                /\ it.position < Cardinality(scope) - 1)
               => /\ ~Dense(rest)
                  /\ ~\E i \in rest : i.position = it.position
    ]_vars

\* C24 witness: an item has been deleted and a later sibling of it is still
\* where it was, behind the gap
DeleteKeepsPositionsWitness ==
  /\ last.op = "delete_item"
  /\ last.code = HTTP_200_OK
  /\ \E i \in ItemsOf(items, SectionA) : i.position = 1
  /\ ~\E i \in ItemsOf(items, SectionA) : i.position = 0

\* A dense scope from which one document has been deleted: the positions
\* are distinct and are 0..N with one value left out
OneDeleted(docs) ==
  /\ \A a, b \in docs : a.position = b.position => a = b
  /\ \E p \in 0 .. Cardinality(docs) :
       {d.position : d \in docs} = (0 .. Cardinality(docs)) \ {p}

\* C25 as stated (a gap lasts until the next insert): in a scope that a
\* delete from a dense scope has left, an admitted create_section,
\* create_item or duplicate_item request without a position leaves the
\* positions of the scope dense, 0..N-1.
InsertClosesGap ==
  [][/\ \A u \in Users, cid \in CourseIds :
          (/\ create_section(u, cid, 0)
           /\ require_roles(u, EditorRoles)
           /\ check_course_access(cid, u, TRUE) = HTTP_200_OK
           /\ OneDeleted(SectionsOf(sections, cid)))
          => Dense(SectionsOf(sections', cid))
     /\ \A u \in Users, sid \in SectionIdArgs :
          (/\ create_item(u, sid, 0)
           /\ require_roles(u, EditorRoles)
           /\ check_section_access(sid, TRUE) = HTTP_200_OK
           /\ OneDeleted(ItemsOf(items, sid)))
          => Dense(ItemsOf(items', sid))
     /\ \A u \in Users, iid \in ItemIdArgs :
          \A it \in {i \in items : i.id = iid} :
            (/\ duplicate_item(u, iid, NoId)
             /\ require_roles(u, EditorRoles)
             /\ OneDeleted(ItemsOf(items, it.section_id)))
            => Dense(ItemsOf(items', it.section_id))
    ]_vars

----------------------------------------------------------------------------
(* The items of one section under two move_item and duplicate_item         *)
(* requests whose store operations interleave.  Every request asks for the *)
(* item's own section and a position inside it.                            *)

InitRace ==
  /\ courses = {NewCourse("c1", "teacherA")}
  /\ sections = SectionsAtCreate("c1", 1, SectionA)
  /\ \E na \in 2 .. MaxItems :
       items = ItemsAtCreate("c1", SectionA, na, MaxId + 3)
  /\ enrollments = {}
  /\ grades = {}
  /\ completion_state = {}
  /\ course_categories = CategoriesAtStart(Cardinality(courses))
  /\ enrollment_methods = {}
  /\ counts = NoCounts
  /\ NoEvaluation
  /\ nextId = 1
  /\ last = NoRequest
  /\ users = {}
  /\ requests = {}

NextRace ==
  \/ \E rid \in RequestIds, it \in items :
       \E new_position \in
            0 .. (Cardinality(ItemsOf(items, it.section_id)) - 1) :
         MoveItemRead(rid, "editor", it.id, it.section_id, new_position)
  \/ \E rid \in RequestIds : MoveItemWrite(rid)
  \/ \E rid \in RequestIds, it \in items :
       DuplicateItemRead(rid, "editor", it.id, NoId)
  \/ \E rid \in RequestIds : DuplicateItemInsert(rid)

SpecRace == InitRace /\ [][NextRace]_vars

\* C26 (reorder requests race): a move_item or duplicate_item request that
\* read a dense scope, asks for a position inside it and has the store to
\* itself from its read to its last write leaves the scope dense; when the
\* writes of two such requests interleave, a state with a duplicated or a
\* missing position is reached (RaceWitness).
RequestAloneKeepsDense ==
  [][\A r \in requests :
       (/\ r.pc # "done"
        /\ [r EXCEPT !.pc = "done"] \in requests'
        /\ r.alone /\ r.regular)
       => /\ Dense(ItemsOf(items', r.target.id))
          /\ Dense(ItemsOf(items', r.doc.section_id))
    ]_vars

\* C26 witness: both requests have been answered, and the section, dense at
\* the start and asked only for moves inside 0..N-1, holds one position
\* twice and lacks another
RaceWitness ==
  /\ Running = {}
  /\ \A r \in requests : r.op = "move_item" /\ r.regular
  /\ last.op = "move_item"
  /\ last.code = HTTP_200_OK
  /\ nextId = 1
  /\ \E a, b \in ItemsOf(items, SectionA) : a # b /\ a.position = b.position
  /\ \E p \in 0 .. (Cardinality(ItemsOf(items, SectionA)) - 1) :
       ~\E i \in ItemsOf(items, SectionA) : i.position = p

----------------------------------------------------------------------------
(* The sections of one course under two move_section requests whose store  *)
(* operations interleave, each for a position inside the course            *)

InitRaceSections ==
  /\ courses = {NewCourse("c1", "teacherA")}
  /\ \E n \in 1 .. MaxNumSections :
       sections = SectionsAtCreate("c1", n, MaxId + 1)
  /\ items = {}
  /\ enrollments = {}
  /\ grades = {}
  /\ completion_state = {}
  /\ course_categories = CategoriesAtStart(Cardinality(courses))
  /\ enrollment_methods = {}
  /\ counts = NoCounts
  /\ NoEvaluation
  /\ nextId = 1
  /\ last = NoRequest
  /\ users = {}
  /\ requests = {}

NextRaceSections ==
  \/ \E rid \in RequestIds, s \in sections :
       \E new_position \in 0 .. (Cardinality(SectionsOf(sections, "c1")) - 1) :
         MoveSectionRead(rid, "teacherA", "c1", s.id, new_position)
  \/ \E rid \in RequestIds : MoveSectionWrite(rid)

SpecRaceSections == InitRaceSections /\ [][NextRaceSections]_vars

\* The section half of the race: against the unique index no write of a
\* move_section request inside the course gets through, alone or
\* interleaved, so the sections stay as they were and every such request is
\* answered with the error
SectionRaceRefused ==
  /\ AllSectionsDense
  /\ \A r \in requests : r.pc \in {"shift", "done"}
  /\ last.op = "move_section" =>
       (last.detail \in {"no_change", "duplicate_key"})

----------------------------------------------------------------------------
(* A course of more sections than duplicate_course reads, with one item,   *)
(* under move_item, duplicate_course and delete_course.  The ids of the    *)
(* copies run up to MaxId.                                                 *)

InitCopy ==
  /\ courses = {NewCourse("c1", "teacherA")}
  /\ sections = SectionsAtCreate("c1", SectionListLimit, MaxId + 1)
  /\ items = ItemsAtCreate("c1", MaxId + 1, 1, MaxId + SectionListLimit + 2)
  /\ enrollments = {}
  /\ grades = {}
  /\ completion_state = {}
  /\ course_categories = CategoriesAtStart(Cardinality(courses))
  /\ enrollment_methods = {}
  /\ counts = NoCounts
  /\ NoEvaluation
  /\ nextId = MaxId - SectionListLimit
  /\ last = NoRequest
  /\ users = {}
  /\ requests = {}

\* The sections that the item is moved to: the first one and the last two
CopyTargets ==
  {s \in sections : s.position \in {0, SectionListLimit - 1, SectionListLimit}}

NextCopy ==
  \/ /\ ~CourseExists("c2")
     /\ \E it \in items, s \in CopyTargets :
          move_item("teacherA", it.id, s.id, 0)
  \/ duplicate_course("teacherA", "c1", "c2", "s2")
  \/ delete_course("admin", "c2")

SpecCopy == InitCopy /\ [][NextCopy]_vars

\* C27 as stated (the course reference of an item stays consistent): the
\* section that an item names exists, and the item's course_id is the
\* course_id of that section.
ItemCourseConsistent ==
  \A i \in items :
    \E s \in sections : s.id = i.section_id /\ s.course_id = i.course_id

----------------------------------------------------------------------------
(* Two categories and the courses in them under every course request that  *)
(* creates, moves, copies or deletes a course                              *)

\* The ids of the two stored categories and one id that names no category
CatalogCategoryIds == {"cat1", "cat2", "nocat"}

\* A CourseUpdate payload that carries the field category_id only
CategoryPatches ==
  {[fields |-> {"category_id"}, category_id |-> cat] :
     cat \in CatalogCategoryIds}

InitCategories ==
  /\ courses = {NewCourse("c1", "teacherA")}
  /\ sections = SectionsAtCreate("c1", 0, MaxId + 1)
  /\ items = {}
  /\ enrollments = {}
  /\ grades = {}
  /\ completion_state = {}
  /\ course_categories = {[id |-> "cat1", course_count |-> 1],
                          [id |-> "cat2", course_count |-> 0]}
  /\ enrollment_methods = {}
  /\ counts = NoCounts
  /\ NoEvaluation
  /\ nextId = 1
  /\ last = NoRequest
  /\ users = {}
  /\ requests = {}

NextCategories ==
  \/ \E cid \in CourseIds, sn \in ShortNames, cat \in CatalogCategoryIds :
       create_course("admin", cid, sn, cat, 0)
  \/ \E cid \in CourseIds, patch \in CategoryPatches :
       update_course("admin", cid, patch)
  \/ \E cid \in CourseIds, new_cid \in CourseIds, sn \in ShortNames :
       duplicate_course("admin", cid, new_cid, sn)
  \/ \E cid \in CourseIds : delete_course("admin", cid)
  \/ \E course_ids \in SUBSET CourseIds, action \in {"delete", "hide"} :
       bulk_course_action("admin", course_ids, action)

SpecCategories == InitCategories /\ [][NextCategories]_vars

\* C28 as stated (category course counter): the course_count of each
\* category is the number of courses whose category_id is that category,
\* and the category_id of every course names a stored category.
CategoryCounter ==
  /\ \A c \in course_categories :
       c.course_count = Cardinality({x \in courses : x.category_id = c.id})
  /\ \A x \in courses : \E c \in course_categories : c.id = x.category_id

----------------------------------------------------------------------------
(* routes/auth.py and routes/users.py: the users collection *)

UserRole == {"admin", "teacher", "editor", "student"}
UserStatus == {"active", "inactive", "suspended"}
Emails == {"admin@lms", "student@lms", "new@lms"}
Languages == {"es", "en"}

\* The roles and statuses that request bodies carry here
RoleArgs == {r \in UserRole : r \in {"admin", "student"}}
StatusArgs == {s \in UserStatus : s \in {"active", "inactive"}}

\* The user_id that login puts into the token of caller u ("sub"); the role
\* of the token is RoleOf(u)
UserIdOf(u) == IF u = "admin" THEN MaxId + 1 ELSE MaxId + 2

UserExists(user_id) == \E x \in users : x.id = user_id
UserWith(user_id) == CHOOSE x \in users : x.id = user_id

\* A UserCreate body: role and status are fields of the body, with the
\* defaults student and active when the body leaves them out
UserCreateBodies ==
  {[email |-> e, role |-> r, status |-> s, language |-> "es"] :
     e \in Emails, r \in RoleArgs, s \in StatusArgs}

\* User(**user_dict).model_dump(): every field of the body is kept, the id
\* is a fresh uuid
UserDocument(user_data, id) ==
  [id |-> id, email |-> user_data.email, role |-> user_data.role,
   status |-> user_data.status, language |-> user_data.language]

\* POST /auth/register: no dependency on a token
register(user_data) ==
  LET existing == \E x \in users : x.email = user_data.email
      code == IF existing THEN HTTP_400_BAD_REQUEST ELSE HTTP_200_OK
  IN /\ code = HTTP_200_OK => nextId <= MaxId
     /\ users' = IF code = HTTP_200_OK
                 THEN users \cup {UserDocument(user_data, nextId)}
                 ELSE users
     /\ nextId' = IF code = HTTP_200_OK THEN nextId + 1 ELSE nextId
     /\ last' = Response("register", code,
                         IF existing THEN "email" ELSE "ok")
     /\ UNCHANGED <<courses, sections, items, enrollments, grades,
                    completion_state, course_categories, enrollment_methods,
                    counts, evaluation, requests>>

\* POST /users
create_user(u, user_data) ==
  LET existing == \E x \in users : x.email = user_data.email
      code == IF ~require_roles(u, {"admin"}) THEN HTTP_403_FORBIDDEN
              ELSE IF existing THEN HTTP_400_BAD_REQUEST
              ELSE HTTP_200_OK
  IN /\ code = HTTP_200_OK => nextId <= MaxId
     /\ users' = IF code = HTTP_200_OK
                 THEN users \cup {UserDocument(user_data, nextId)}
                 ELSE users
     /\ nextId' = IF code = HTTP_200_OK THEN nextId + 1 ELSE nextId
     /\ last' = Response("create_user", code,
                         IF code = HTTP_403_FORBIDDEN THEN "role"
                         ELSE IF existing THEN "email" ELSE "ok")
     /\ UNCHANGED <<courses, sections, items, enrollments, grades,
                    completion_state, course_categories, enrollment_methods,
                    counts, evaluation, requests>>

\* A UserUpdate body (model_dump(exclude_unset=True)): the fields the caller
\* supplied, out of role, status and language, with their values
UserUpdateBodies ==
  {[fields |-> f, role |-> r, status |-> s, language |-> l] :
     f \in SUBSET {"role", "status", "language"},
     r \in RoleArgs, s \in StatusArgs, l \in Languages}

\* update_data.pop("role", None); update_data.pop("status", None)
PopRoleAndStatus(fields) == fields \ {"role", "status"}

\* PATCH /users/{user_id}
update_user(u, user_id, user_update) ==
  LET is_self == UserIdOf(u) = user_id
      is_admin == RoleOf(u) = "admin"
      code == IF ~is_self /\ ~is_admin THEN HTTP_403_FORBIDDEN
              ELSE IF ~UserExists(user_id) THEN HTTP_404_NOT_FOUND
              ELSE HTTP_200_OK
      update_data == IF ~is_admin THEN PopRoleAndStatus(user_update.fields)
                     ELSE user_update.fields
      set(x) ==
        [x EXCEPT
           !.role = IF "role" \in update_data THEN user_update.role ELSE @,
           !.status = IF "status" \in update_data
                      THEN user_update.status ELSE @,
           !.language = IF "language" \in update_data
                        THEN user_update.language ELSE @]
  IN /\ users' = IF code = HTTP_200_OK
                 THEN {IF x.id = user_id THEN set(x) ELSE x : x \in users}
                 ELSE users
     /\ last' = Response("update_user", code,
                         IF code = HTTP_403_FORBIDDEN THEN "not_self"
                         ELSE IF code = HTTP_404_NOT_FOUND
                         THEN "user_not_found" ELSE "ok")
     /\ UNCHANGED <<courses, sections, items, enrollments, grades,
                    completion_state, nextId, course_categories,
                    enrollment_methods, counts, evaluation, requests>>

\* POST /users/bulk; role is PyNone when the request has no role parameter
bulk_user_action(u, user_ids, action, role) ==
  LET valid == \/ action \in {"deactivate", "reactivate"}
               \/ action = "change_role" /\ role # PyNone
      code == IF ~require_roles(u, {"admin"}) THEN HTTP_403_FORBIDDEN
              ELSE IF ~valid THEN HTTP_400_BAD_REQUEST
              ELSE HTTP_200_OK
      set(x) ==
        CASE action = "deactivate" -> [x EXCEPT !.status = "inactive"]
          [] action = "reactivate" -> [x EXCEPT !.status = "active"]
          [] OTHER -> [x EXCEPT !.role = role]
  IN /\ users' = IF code = HTTP_200_OK
                 THEN {IF x.id \in user_ids THEN set(x) ELSE x : x \in users}
                 ELSE users
     /\ last' = Response("bulk_user_action", code,
                         IF code = HTTP_403_FORBIDDEN THEN "role"
                         ELSE IF ~valid THEN "action" ELSE "ok")
     /\ UNCHANGED <<courses, sections, items, enrollments, grades,
                    completion_state, nextId, course_categories,
                    enrollment_methods, counts, evaluation, requests>>

UserCallers == {"admin", "student"}
UserIdArgs == {x.id : x \in users} \cup {NoId}

InitUsers ==
  /\ courses = {}
  /\ sections = {}
  /\ items = {}
  /\ enrollments = {}
  /\ grades = {}
  /\ completion_state = {}
  /\ course_categories = {}
  /\ enrollment_methods = {}
  /\ counts = NoCounts
  /\ NoEvaluation
  /\ nextId = MaxId
  /\ last = NoRequest
  /\ users = {[id |-> UserIdOf("admin"), email |-> "admin@lms",
               role |-> "admin", status |-> "active", language |-> "es"],
              [id |-> UserIdOf("student"), email |-> "student@lms",
               role |-> "student", status |-> "active", language |-> "es"]}
  /\ requests = {}

NextUsers ==
  \/ \E user_data \in UserCreateBodies : register(user_data)
  \/ \E u \in UserCallers, user_data \in UserCreateBodies :
       create_user(u, user_data)
  \/ \E u \in UserCallers, user_id \in UserIdArgs,
        user_update \in UserUpdateBodies : update_user(u, user_id, user_update)
  \/ \E u \in UserCallers, user_ids \in SUBSET UserIdArgs,
        action \in {"deactivate", "reactivate", "change_role", "delete"},
        role \in {"admin", PyNone} :
       bulk_user_action(u, user_ids, action, role)

SpecUsers == InitUsers /\ [][NextUsers]_vars

\* The role and status of every stored user are as before the step, and no
\* user with role admin has been added
RolesAndStatusKept ==
  /\ \A x \in users : \A y \in users' :
       y.id = x.id => y.role = x.role /\ y.status = x.status
  /\ \A y \in users' : y.role = "admin" => UserExists(y.id)

\* C29 as stated (no privilege escalation on user records): a request that
\* carries no admin token (register, and update_user, create_user or
\* bulk_user_action called by a caller who is not an admin) neither adds a
\* user with role admin nor changes the role or status of a stored user.
NoPrivilegeEscalation ==
  [][(\/ \E user_data \in UserCreateBodies : register(user_data)
      \/ \E u \in UserCallers \ {"admin"} :
           \/ \E user_data \in UserCreateBodies : create_user(u, user_data)
           \/ \E user_id \in UserIdArgs, user_update \in UserUpdateBodies :
                update_user(u, user_id, user_update)
           \/ \E user_ids \in SUBSET UserIdArgs,
                 action \in {"deactivate", "reactivate", "change_role"},
                 role \in {"admin", PyNone} :
                bulk_user_action(u, user_ids, action, role))
     => RolesAndStatusKept]_vars

----------------------------------------------------------------------------
(* Reading the items of a course, while the course and the student's       *)
(* enrollment change                                                        *)

InitItemView ==
  /\ courses = {NewCourse("c1", "teacherA")}
  /\ sections = SectionsAtCreate("c1", 0, MaxId + 1)
  /\ items = {[id |-> MaxId + 2, section_id |-> MaxId + 1,
               course_id |-> "c1", position |-> 0, visible |-> TRUE],
              [id |-> MaxId + 3, section_id |-> MaxId + 1,
               course_id |-> "c1", position |-> 1, visible |-> FALSE]}
  /\ enrollments = {}
  /\ grades = {}
  /\ completion_state = {}
  /\ course_categories = CategoriesAtStart(Cardinality(courses))
  /\ enrollment_methods = {}
  /\ counts = NoCounts
  /\ NoEvaluation
  /\ nextId = 1
  /\ last = NoRequest
  /\ users = {}
  /\ requests = {}

NextItemView ==
  \/ \E u \in ViewCallers, cid \in CourseIds : get_course(u, cid)
  \/ \E u \in ViewCallers, sid \in SectionIdArgs : list_section_items(u, sid)
  \/ \E u \in ViewCallers, iid \in ItemIdArgs : get_item(u, iid)
  \/ \E patch \in CoursePatches : update_course("admin", "c1", patch)
  \/ \E role \in EnrollmentRole : enroll_user("admin", "c1", "student", role)
  \/ \E eid \in EnrollmentIdArgs, patch \in EnrollmentPatches :
       update_enrollment("admin", eid, patch)

SpecItemView == InitItemView /\ [][NextItemView]_vars

\* C30 as stated (items follow the course view gate): a student who is not
\* allowed to view a course is refused by list_section_items for the
\* sections of that course and by get_item for its items, and the items
\* that list_section_items returns to a student all have visible = true.
ItemsFollowViewGate ==
  [][\A u \in Users :
       RoleOf(u) = "student" =>
         /\ \A s \in sections :
              list_section_items(u, s.id) =>
                /\ (CourseExists(s.course_id) /\ ~ViewAllowed(u, s.course_id))
                     => last'.code # HTTP_200_OK
                /\ \A i \in items : i.id \in last'.items => i.visible
         /\ \A i \in items :
              get_item(u, i.id) =>
                ((CourseExists(i.course_id) /\ ~ViewAllowed(u, i.course_id))
                   => last'.code # HTTP_200_OK)
    ]_vars

\* The second half of C30 alone: what list_section_items returns to a
\* student are items with visible = true.
StudentListsVisibleItems ==
  [][\A u \in Users, s \in sections :
       (RoleOf(u) = "student" /\ list_section_items(u, s.id)) =>
         \A i \in items : i.id \in last'.items => i.visible]_vars

====

